---- MODULE Spec2Model ----
(***************************************************************************)
(* Model of the extraction pipeline of ai-image-decoder                    *)
(* (src/src/extraction): the prompt normalizer, the PNG and WebP chunk     *)
(* readers, the ComfyUI workflow parser and the parameter-string parser.   *)
(*                                                                         *)
(* Text is a sequence of Unicode code points (32 = ' ', 10 = '\n', ...);   *)
(* a file buffer is a sequence of bytes 0..255.  Option<String> is <<>>    *)
(* for None and <<s>> for Some(s).                                         *)
(***************************************************************************)
EXTENDS Integers, Sequences, FiniteSets, TLC

VARIABLES
    \* normalizer.rs
    prompt,         \* the &str handed to PromptNormalizer
    normalized,     \* normalize(prompt)
    renormalized,   \* normalize(normalized)
    cleaned,        \* clean(prompt)
    segments,       \* extract_segments(prompt)
    npc             \* which normalizer call has returned

VARIABLES
    \* png.rs, parse_png_text_chunks
    png_file,       \* the chunks the file was written from
    data,           \* the file's bytes, as read
    offset,         \* the reader's position in data (0-based)
    chunks,         \* the (keyword, text) pairs pushed so far
    ppc             \* "idle", "loop", or how the loop was left

VARIABLES
    \* webp.rs, parse_webp_chunks
    webp_file,      \* the header and chunks the file was written from
    wdata,          \* the file's bytes, as read
    woffset,        \* the reader's position in wdata (0-based)
    wchunks,        \* the (key, text) pairs pushed so far
    wpc             \* "idle", "start", "loop", or how the function returned

VARIABLES
    \* comfyui.rs, apply_comfyui_to_metadata and parse_comfyui_workflow
    json_str,       \* the text handed in: whether it parses, and the tree it spells
    metadata_in,    \* the caller's metadata at the call
    metadata,       \* the caller's metadata, as apply_comfyui_to_metadata leaves it
    workflow,       \* the ComfyUIWorkflow record being built
    node_idx,       \* how many entries of the top-level object have been visited
    cpc             \* "idle", "start", "nodes", "parsed", "parse_err", "applied", "applied_err"

VARIABLES
    \* png.rs, parse_parameters_string
    params,         \* the parameter string handed in
    pmeta_in,       \* the caller's metadata at the call
    pmeta,          \* the caller's metadata, as written so far
    part_idx,       \* how many segments of the final line have been matched
    qpc             \* "idle", "start", "parts" or "returned"

VARIABLES
    \* tag_extractor.rs, TagExtractor::extract_from_prompt
    tag_prompt,      \* the prompt handed in
    tag_negative,    \* the negative prompt handed in, an option
    tag_segments,    \* the segments of the prompt being walked
    tags,            \* the (name, type, confidence) tuples pushed so far
    seen_tags,       \* the names that have produced a tag
    tag_idx,         \* how many of tag_segments have been handled
    tpc              \* "idle", "start", "positive", "negative" or "returned"

VARIABLES
    \* parser.rs, MetadataExtractor::extract with png.rs and webp.rs mapping
    path_extension,          \* path.extension(): None, or Some(text)
    file_readable,           \* whether reading the file at path succeeds
    text_chunks,             \* what the chunk reader returns for the file: (key, value) pairs
    ext,                     \* the lowercased extension
    extracted,               \* metadata, once created
    has_comfyui_workflow,    \* png.rs line 16
    chunk_idx,               \* pairs of text_chunks already mapped
    outcome,                 \* "none" while running, then "Ok" or "Err"
    xpc                      \* "start", "match", "png_chunks", "webp_chunks", "normalize", "returned"

VARIABLES
    \* jpeg.rs: extract_jpeg_metadata
    exif_fields,    \* the (tag, displayed value) pairs of exif.fields()
    buf,            \* the bytes of the file
    jmeta,          \* the metadata record being filled
    field_idx,      \* EXIF fields handled so far
    jpc             \* where extract_jpeg_metadata is

vars ==
    <<prompt, normalized, renormalized, cleaned, segments, npc,
      png_file, data, offset, chunks, ppc,
      webp_file, wdata, woffset, wchunks, wpc,
      json_str, metadata_in, metadata, workflow, node_idx, cpc,
      params, pmeta_in, pmeta, part_idx, qpc,
      tag_prompt, tag_negative, tag_segments, tags, seen_tags, tag_idx, tpc,
      path_extension, file_readable, text_chunks, ext, extracted, has_comfyui_workflow, chunk_idx, outcome, xpc,
      exif_fields, buf, jmeta, field_idx, jpc>>

\* What the steps of one component leave alone: the variables of the others
notNorm ==
    <<png_file, data, offset, chunks, ppc,
      webp_file, wdata, woffset, wchunks, wpc,
      json_str, metadata_in, metadata, workflow, node_idx, cpc,
      params, pmeta_in, pmeta, part_idx, qpc,
      tag_prompt, tag_negative, tag_segments, tags, seen_tags, tag_idx, tpc,
      path_extension, file_readable, text_chunks, ext, extracted, has_comfyui_workflow, chunk_idx, outcome, xpc,
      exif_fields, buf, jmeta, field_idx, jpc>>
notPng ==
    <<prompt, normalized, renormalized, cleaned, segments, npc,
      webp_file, wdata, woffset, wchunks, wpc,
      json_str, metadata_in, metadata, workflow, node_idx, cpc,
      params, pmeta_in, pmeta, part_idx, qpc,
      tag_prompt, tag_negative, tag_segments, tags, seen_tags, tag_idx, tpc,
      path_extension, file_readable, text_chunks, ext, extracted, has_comfyui_workflow, chunk_idx, outcome, xpc,
      exif_fields, buf, jmeta, field_idx, jpc>>
notWebp ==
    <<prompt, normalized, renormalized, cleaned, segments, npc,
      png_file, data, offset, chunks, ppc,
      json_str, metadata_in, metadata, workflow, node_idx, cpc,
      params, pmeta_in, pmeta, part_idx, qpc,
      tag_prompt, tag_negative, tag_segments, tags, seen_tags, tag_idx, tpc,
      path_extension, file_readable, text_chunks, ext, extracted, has_comfyui_workflow, chunk_idx, outcome, xpc,
      exif_fields, buf, jmeta, field_idx, jpc>>
notComfy ==
    <<prompt, normalized, renormalized, cleaned, segments, npc,
      png_file, data, offset, chunks, ppc,
      webp_file, wdata, woffset, wchunks, wpc,
      params, pmeta_in, pmeta, part_idx, qpc,
      tag_prompt, tag_negative, tag_segments, tags, seen_tags, tag_idx, tpc,
      path_extension, file_readable, text_chunks, ext, extracted, has_comfyui_workflow, chunk_idx, outcome, xpc,
      exif_fields, buf, jmeta, field_idx, jpc>>
notParams ==
    <<prompt, normalized, renormalized, cleaned, segments, npc,
      png_file, data, offset, chunks, ppc,
      webp_file, wdata, woffset, wchunks, wpc,
      json_str, metadata_in, metadata, workflow, node_idx, cpc,
      tag_prompt, tag_negative, tag_segments, tags, seen_tags, tag_idx, tpc,
      path_extension, file_readable, text_chunks, ext, extracted, has_comfyui_workflow, chunk_idx, outcome, xpc,
      exif_fields, buf, jmeta, field_idx, jpc>>
notTags ==
    <<prompt, normalized, renormalized, cleaned, segments, npc,
      png_file, data, offset, chunks, ppc,
      webp_file, wdata, woffset, wchunks, wpc,
      json_str, metadata_in, metadata, workflow, node_idx, cpc,
      params, pmeta_in, pmeta, part_idx, qpc,
      path_extension, file_readable, text_chunks, ext, extracted, has_comfyui_workflow, chunk_idx, outcome, xpc,
      exif_fields, buf, jmeta, field_idx, jpc>>
notExtract ==
    <<prompt, normalized, renormalized, cleaned, segments, npc,
      png_file, data, offset, chunks, ppc,
      webp_file, wdata, woffset, wchunks, wpc,
      json_str, metadata_in, metadata, workflow, node_idx, cpc,
      params, pmeta_in, pmeta, part_idx, qpc,
      tag_prompt, tag_negative, tag_segments, tags, seen_tags, tag_idx, tpc,
      exif_fields, buf, jmeta, field_idx, jpc>>
notJpeg ==
    <<prompt, normalized, renormalized, cleaned, segments, npc,
      png_file, data, offset, chunks, ppc,
      webp_file, wdata, woffset, wchunks, wpc,
      json_str, metadata_in, metadata, workflow, node_idx, cpc,
      params, pmeta_in, pmeta, part_idx, qpc,
      tag_prompt, tag_negative, tag_segments, tags, seen_tags, tag_idx, tpc,
      path_extension, file_readable, text_chunks, ext, extracted, has_comfyui_workflow, chunk_idx, outcome, xpc>>

\* A specification runs one component; the variables of every other one
\* keep the values they have when it is not called
IdleExcept(component) ==
    /\ component # "norm" =>
        /\ prompt = <<>>
        /\ normalized = <<>>
        /\ renormalized = <<>>
        /\ cleaned = <<>>
        /\ segments = <<>>
        /\ npc = "idle"
    /\ component # "png" =>
        /\ png_file = <<>>
        /\ data = <<>>
        /\ offset = 0
        /\ chunks = <<>>
        /\ ppc = "idle"
    /\ component # "webp" =>
        /\ webp_file = [riff |-> <<>>, form |-> <<>>, chunks |-> <<>>]
        /\ wdata = <<>>
        /\ woffset = 0
        /\ wchunks = <<>>
        /\ wpc = "idle"
    /\ component # "comfy" =>
        /\ json_str = [ok |-> FALSE, tree |-> [t |-> "null"]]
        /\ metadata_in = <<>>
        /\ metadata = <<>>
        /\ workflow = <<>>
        /\ node_idx = 0
        /\ cpc = "idle"
    /\ component # "params" =>
        /\ params = <<>>
        /\ pmeta_in = <<>>
        /\ pmeta = <<>>
        /\ part_idx = 0
        /\ qpc = "idle"
    /\ component # "tags" =>
        /\ tag_prompt = <<>>
        /\ tag_negative = <<>>
        /\ tag_segments = <<>>
        /\ tags = <<>>
        /\ seen_tags = {}
        /\ tag_idx = 0
        /\ tpc = "idle"
    /\ component # "extract" =>
        /\ path_extension = <<>>
        /\ file_readable = FALSE
        /\ text_chunks = <<>>
        /\ ext = <<>>
        /\ extracted = <<>>
        /\ has_comfyui_workflow = FALSE
        /\ chunk_idx = 0
        /\ outcome = "none"
        /\ xpc = "idle"
    /\ component # "jpeg" =>
        /\ exif_fields = <<>>
        /\ buf = <<>>
        /\ jmeta = <<>>
        /\ field_idx = 0
        /\ jpc = "idle"

-----------------------------------------------------------------------------
(* Bounds of the model *)

MaxPromptLen == 5
MaxPngChunks == 3
MaxWebpChunks == 3
MaxNodes == 3
MaxParts == 2
MaxTagSegments == 2
MaxTextChunks == 2
\* EXIF fields in one JPEG file
MaxExifFields == 3

-----------------------------------------------------------------------------
(* Option<T> *)

None == <<>>
Some(x) == <<x>>
IsSome(o) == o # <<>>
IsNone(o) == o = <<>>
Unwrap(o) == o[1]

-----------------------------------------------------------------------------
(* Characters and the str methods the code calls *)

SP == 32
TAB == 9
LF == 10
CR == 13
COMMA == 44
NUL == 0
REPLACEMENT == 65533

BoundedSeq(S, n) == UNION {[1..k -> S] : k \in 0..n}

\* char::is_control: general category Cc
is_control(c) == c <= 31 \/ (c >= 127 /\ c <= 159)

\* char::is_whitespace: the White_Space property
is_whitespace(c) ==
    \/ c \in {9, 10, 11, 12, 13, 32, 133, 160, 5760, 8232, 8233, 8239, 8287, 12288}
    \/ (c >= 8192 /\ c <= 8202)

RECURSIVE trim_start(_)
trim_start(s) ==
    IF s = <<>> THEN <<>>
    ELSE IF is_whitespace(Head(s)) THEN trim_start(Tail(s))
    ELSE s

RECURSIVE trim_end(_)
trim_end(s) ==
    IF s = <<>> THEN <<>>
    ELSE IF is_whitespace(s[Len(s)]) THEN trim_end(SubSeq(s, 1, Len(s) - 1))
    ELSE s

trim(s) == trim_end(trim_start(s))

starts_with(s, p) == Len(s) >= Len(p) /\ SubSeq(s, 1, Len(p)) = p

\* str::find: the 1-based index of the first occurrence of p in s, 0 if none
find(s, p) ==
    LET hits == {i \in 1..(Len(s) - Len(p) + 1) : SubSeq(s, i, i + Len(p) - 1) = p}
    IN IF hits = {} THEN 0 ELSE CHOOSE i \in hits : \A j \in hits : i <= j

contains(s, p) == find(s, p) # 0

\* str::replace(from, to): every non-overlapping occurrence, left to right
RECURSIVE replace(_, _, _)
replace(s, from, to) ==
    IF s = <<>> THEN <<>>
    ELSE IF starts_with(s, from) THEN to \o replace(SubSeq(s, Len(from) + 1, Len(s)), from, to)
    ELSE <<Head(s)>> \o replace(Tail(s), from, to)

\* str::split(c): the pieces between the occurrences of c; always at least one
RECURSIVE split(_, _)
split(s, c) ==
    LET i == find(s, <<c>>)
    IN IF i = 0 THEN <<s>>
       ELSE <<SubSeq(s, 1, i - 1)>> \o split(SubSeq(s, i + 1, Len(s)), c)

\* str::lines: split at '\n', a "\r\n" ending also loses its '\r', and the
\* last line needs no ending ("" has no line, "a\n" has one)
RECURSIVE lines(_)
lines(s) ==
    LET i == find(s, <<LF>>)
        strip_cr(l) == IF l # <<>> /\ l[Len(l)] = CR THEN SubSeq(l, 1, Len(l) - 1) ELSE l
    IN IF s = <<>> THEN <<>>
       ELSE IF i = 0 THEN <<s>>
       ELSE <<strip_cr(SubSeq(s, 1, i - 1))>> \o lines(SubSeq(s, i + 1, Len(s)))

\* [String]::join(sep)
RECURSIVE join(_, _)
join(v, sep) ==
    IF v = <<>> THEN <<>>
    ELSE IF Len(v) = 1 THEN v[1]
    ELSE v[1] \o sep \o join(Tail(v), sep)

-----------------------------------------------------------------------------
(* normalizer.rs *)

\* .chars().filter(|c| !c.is_control() || *c == '\n' || *c == '\t')
remove_control(s) == SelectSeq(s, LAMBDA c : ~is_control(c) \/ c = LF \/ c = TAB)

\* The mutant of collapse_blanks: the pattern is [ \t]{2}, a run is halved.
RECURSIVE collapse_blanks_pairs(_)
collapse_blanks_pairs(s) ==
    IF s = <<>> THEN <<>>
    ELSE IF Head(s) \in {SP, TAB}
         THEN IF Len(s) >= 2 /\ s[2] \in {SP, TAB}
              THEN <<SP>> \o collapse_blanks_pairs(SubSeq(s, 3, Len(s)))
              ELSE <<SP>> \o collapse_blanks_pairs(Tail(s))
    ELSE <<Head(s)>> \o collapse_blanks_pairs(Tail(s))

\* Regex [ \t]+ replaced by " "
RECURSIVE collapse_blanks(_)
collapse_blanks(s) ==
    IF s = <<>> THEN <<>>
    ELSE IF Head(s) \in {SP, TAB}
         THEN IF Len(s) >= 2 /\ s[2] \in {SP, TAB}
              THEN collapse_blanks(Tail(s))
              ELSE <<SP>> \o collapse_blanks(Tail(s))
    ELSE <<Head(s)>> \o collapse_blanks(Tail(s))

\* Regex \n{3,} replaced by "\n\n"
RECURSIVE collapse_newlines(_)
collapse_newlines(s) ==
    IF s = <<>> THEN <<>>
    ELSE IF Len(s) >= 3 /\ s[1] = LF /\ s[2] = LF /\ s[3] = LF
         THEN collapse_newlines(Tail(s))
    ELSE <<Head(s)>> \o collapse_newlines(Tail(s))

\* .lines().map(|line| line.trim()) ... lines.join("\n")
trim_lines(s) == join([i \in 1..Len(lines(s)) |-> trim(lines(s)[i])], <<LF>>)

normalize(p) ==
    LET s1 == remove_control(p)
        s2 == collapse_blanks(s1)
        s3 == replace(s2, <<CR, LF>>, <<LF>>)
        s4 == replace(s3, <<CR>>, <<LF>>)
        s5 == trim_lines(s4)
        s6 == collapse_newlines(s5)
    IN trim(s6)

\* The mutant of extract_segments: the empty pieces are kept.
extract_segments_unfiltered(p) ==
    [i \in 1..Len(split(p, COMMA)) |-> normalize(split(p, COMMA)[i])]

extract_segments(p) ==
    SelectSeq([i \in 1..Len(split(p, COMMA)) |-> normalize(split(p, COMMA)[i])],
              LAMBDA s : s # <<>>)

\* Lines 41-53.  replace_all of ",\s*," by "," goes through the text once,
\* from the left, and resumes after each match; trim_end_matches(',') drops
\* every comma at the end, and trim the whitespace around what is left
clean(p) ==
    LET RECURSIVE replace_all(_)
        replace_all(s) ==
            IF s = <<>> THEN <<>>
            ELSE LET after == trim_start(Tail(s))
                 IN IF Head(s) = COMMA /\ after # <<>> /\ Head(after) = COMMA
                    THEN <<COMMA>> \o replace_all(Tail(after))
                    ELSE <<Head(s)>> \o replace_all(Tail(s))
        RECURSIVE trim_end_matches(_)
        trim_end_matches(s) ==
            IF s # <<>> /\ s[Len(s)] = COMMA
            THEN trim_end_matches(SubSeq(s, 1, Len(s) - 1))
            ELSE s
    IN trim(trim_end_matches(replace_all(normalize(p))))

-----------------------------------------------------------------------------
(* Bytes *)

\* &data[a..b] of a 0-based buffer
Slice(d, a, b) == SubSeq(d, a + 1, b)

\* u32::from_be_bytes.  The lengths the model writes stay below 2^24: the
\* sums the reader forms (in usize, 64 bits) then fit the checker's integers.
from_be_bytes(b) == b[1] * 16777216 + b[2] * 65536 + b[3] * 256 + b[4]

\* u32::to_be_bytes, for the files the model writes
to_be_bytes(n) ==
    <<(n \div 16777216) % 256, (n \div 65536) % 256, (n \div 256) % 256, n % 256>>

\* u32::from_le_bytes
from_le_bytes(b) == b[1] + b[2] * 256 + b[3] * 65536 + b[4] * 16777216

\* u32::to_le_bytes, for the files the model writes
to_le_bytes(n) ==
    <<n % 256, (n \div 256) % 256, (n \div 65536) % 256, (n \div 16777216) % 256>>

\* String::from_utf8: None if the bytes are not UTF-8.  The only bytes above
\* 127 the model writes are 0xFF, which no UTF-8 sequence contains.
from_utf8(b) == IF \A i \in 1..Len(b) : b[i] < 128 THEN Some(b) ELSE None

\* String::from_utf8_lossy.  The only bytes above 127 the model writes are
\* 0xFF, which no UTF-8 sequence contains: each becomes U+FFFD.
from_utf8_lossy(b) == [i \in 1..Len(b) |-> IF b[i] < 128 THEN b[i] ELSE REPLACEMENT]

\* .iter().position(|&b| b == 0): 0-based, None if absent
position_nul(b) == IF find(b, <<NUL>>) = 0 THEN None ELSE Some(find(b, <<NUL>>) - 1)

-----------------------------------------------------------------------------
(* png.rs: parse_png_text_chunks, one loop iteration per action *)

\* The byte strings of png.rs and of the files it reads
PngLit ==
    [ tEXt |-> <<116, 69, 88, 116>>,
      IEND |-> <<73, 69, 78, 68>>,
      IDAT |-> <<73, 68, 65, 84>>,
      \* "parameters", "prompt"
      parameters |-> <<112, 97, 114, 97, 109, 101, 116, 101, 114, 115>>,
      prompt |-> <<112, 114, 111, 109, 112, 116>>,
      signature |-> <<137, 80, 78, 71, 13, 10, 26, 10>>,
      crc |-> <<222, 173, 190, 239>> ]

\* The header fields the loop body reads at offset (lines 91-106)
png_length == from_be_bytes(Slice(data, offset, offset + 4))
png_chunk_type == from_utf8_lossy(Slice(data, offset + 4, offset + 8))

\* The mutant of png_push: the pair is put in front of the earlier ones.
png_push_front(cs, pair) == pair \o cs

\* Line 125: chunks.push((keyword, text)); pair is <<>> or one pair
png_push(cs, pair) == cs \o pair

\* Lines 121-127: what one tEXt payload adds to chunks (nothing, or one pair)
png_text_pair(chunk_data) ==
    LET null_pos == position_nul(chunk_data)
    IN IF IsNone(null_pos) THEN <<>>
       ELSE IF Unwrap(null_pos) + 1 < Len(chunk_data)
       THEN << <<from_utf8_lossy(Slice(chunk_data, 0, Unwrap(null_pos))),
                 from_utf8_lossy(Slice(chunk_data, Unwrap(null_pos) + 1, Len(chunk_data)))>> >>
       ELSE <<>>

\* The mutant of PngAtIend: the IEND test is missing, the loop reads on.
PngAtIendNever == FALSE

\* Line 108: chunk_type == "IEND"
PngAtIend == png_chunk_type = PngLit.IEND

\* Line 85 false: the while condition ends the loop
PngEndOfData ==
    /\ ppc = "loop"
    /\ ~(offset < Len(data))
    /\ ppc' = "end_of_data"
    /\ UNCHANGED <<png_file, data, offset, chunks>>
    /\ UNCHANGED notPng

\* Lines 86-88: fewer than 8 bytes are left for a chunk header
PngShortHeader ==
    /\ ppc = "loop"
    /\ offset < Len(data)
    /\ offset + 8 > Len(data)
    /\ ppc' = "short_header"
    /\ UNCHANGED <<png_file, data, offset, chunks>>
    /\ UNCHANGED notPng

\* Lines 108-110: the chunk is IEND
PngIend ==
    /\ ppc = "loop"
    /\ offset < Len(data)
    /\ offset + 8 <= Len(data)
    /\ PngAtIend
    /\ offset' = offset + 8
    /\ ppc' = "iend"
    /\ UNCHANGED <<png_file, data, chunks>>
    /\ UNCHANGED notPng

\* Lines 112-114: payload and CRC do not fit in the buffer
PngOverrun ==
    /\ ppc = "loop"
    /\ offset < Len(data)
    /\ offset + 8 <= Len(data)
    /\ ~PngAtIend
    /\ offset + 8 + png_length + 4 > Len(data)
    /\ offset' = offset + 8
    /\ ppc' = "overrun"
    /\ UNCHANGED <<png_file, data, chunks>>
    /\ UNCHANGED notPng

\* The mutant of PngChunk: the test of lines 112-114 is missing and the chunk
\* is skipped whether or not it fits in the buffer.
PngChunkUnchecked ==
    /\ ppc = "loop"
    /\ offset < Len(data)
    /\ offset + 8 <= Len(data)
    /\ ~PngAtIend
    /\ offset' = offset + 8 + png_length + 4
    /\ UNCHANGED <<png_file, data, chunks, ppc>>
    /\ UNCHANGED notPng

\* Lines 116-131: the chunk is read (a tEXt chunk may push a pair) and skipped
PngChunk ==
    /\ ppc = "loop"
    /\ offset < Len(data)
    /\ offset + 8 <= Len(data)
    /\ ~PngAtIend
    /\ offset + 8 + png_length + 4 <= Len(data)
    /\ chunks' = IF png_chunk_type = PngLit.tEXt /\ png_length > 0
                 THEN png_push(chunks,
                               png_text_pair(Slice(data, offset + 8, offset + 8 + png_length)))
                 ELSE chunks
    /\ offset' = offset + 8 + png_length + 4
    /\ UNCHANGED <<png_file, data, ppc>>
    /\ UNCHANGED notPng

-----------------------------------------------------------------------------
(* The PNG files the reader is run on *)

\* A tEXt chunk with keyword k and text t
TextChunk(k, t) ==
    [type |-> PngLit.tEXt, keyword |-> k, text |-> t, nul |-> TRUE, length |-> Len(k) + 1 + Len(t)]

PngChunkPool ==
    { TextChunk(PngLit.parameters, <<88>>),                \* ("parameters", "X")
      TextChunk(PngLit.prompt, <<89>>),                    \* ("prompt", "Y")
      TextChunk(<<107>>, <<>>),                        \* ("k", ""): empty text
      TextChunk(<<255>>, <<97, NUL, 98>>),             \* invalid UTF-8 keyword, NUL in the text
      [type |-> PngLit.tEXt, keyword |-> <<107, 118>>, text |-> <<>>, nul |-> FALSE, length |-> 2],
      [type |-> PngLit.tEXt, keyword |-> <<>>, text |-> <<>>, nul |-> FALSE, length |-> 0],
      [type |-> PngLit.IDAT, keyword |-> <<1, NUL, 2>>, text |-> <<>>, nul |-> FALSE, length |-> 3],
      [type |-> PngLit.IEND, keyword |-> <<>>, text |-> <<>>, nul |-> FALSE, length |-> 0],
      \* a tEXt chunk ("k", "Z") whose declared length is 2^24 - 1
      [type |-> PngLit.tEXt, keyword |-> <<107>>, text |-> <<90>>, nul |-> TRUE, length |-> 16777215] }

\* The chunks as written, each the declared length, the type, the payload and
\* a CRC.  A tEXt payload is keyword, NUL, text unless nul is FALSE (then it is
\* the keyword alone, malformed).
RECURSIVE PngFileBytes(_)
PngFileBytes(f) ==
    IF f = <<>> THEN <<>>
    ELSE LET c == Head(f)
             body == IF c.nul THEN c.keyword \o <<NUL>> \o c.text ELSE c.keyword
         IN to_be_bytes(c.length) \o c.type \o body \o PngLit.crc \o
            PngFileBytes(Tail(f))

\* The 0-based offset at which chunk i of file f starts
PngChunkStart(f, i) == Len(PngLit.signature) + Len(PngFileBytes(SubSeq(f, 1, i - 1)))

\* Every file of at most MaxPngChunks chunks, whole or cut off anywhere in
\* its last chunk (a file cut off earlier is a shorter file cut off in its
\* last chunk), and the signature alone cut off anywhere.
InitPng ==
    /\ IdleExcept("png")
    /\ png_file \in BoundedSeq(PngChunkPool, MaxPngChunks)
    /\ \E cut \in 0..(Len(PngLit.signature) + Len(PngFileBytes(png_file))) :
        /\ png_file # <<>> => cut > PngChunkStart(png_file, Len(png_file))
        /\ data = SubSeq(PngLit.signature \o PngFileBytes(png_file), 1, cut)
    /\ offset = 8
    /\ chunks = <<>>
    /\ ppc = "loop"

NextPng == PngEndOfData \/ PngShortHeader \/ PngIend \/ PngOverrun \/ PngChunk

SpecPng == InitPng /\ [][NextPng]_vars

-----------------------------------------------------------------------------
(* webp.rs: parse_xmp_for_prompts *)

\* The strings of webp.rs and of the files it reads
WebpLit ==
      \* "description", "EXIF", "XMP"
    [ key_description |->
          <<100, 101, 115, 99, 114, 105, 112, 116, 105, 111, 110>>,
      key_EXIF |-> <<69, 88, 73, 70>>,
      key_XMP |-> <<88, 77, 80>>,
      \* "<dc:description>", "</dc:description>", "rdf:Description", "dc:description=\""
      tag_open |->
          <<60, 100, 99, 58, 100, 101, 115, 99, 114, 105, 112, 116, 105, 111, 110,
            62>>,
      tag_close |->
          <<60, 47, 100, 99, 58, 100, 101, 115, 99, 114, 105, 112, 116, 105, 111,
            110, 62>>,
      tag_rdf |->
          <<114, 100, 102, 58, 68, 101, 115, 99, 114, 105, 112, 116, 105, 111, 110>>,
      attr_open |->
          <<100, 99, 58, 100, 101, 115, 99, 114, 105, 112, 116, 105, 111, 110, 61,
            34>>,
      RIFF |-> <<82, 73, 70, 70>>,
      WEBP |-> <<87, 69, 66, 80>>,
      EXIF |-> <<69, 88, 73, 70>>,
      XMP_ |-> <<88, 77, 80, 32>>,
      VP8_ |-> <<86, 80, 56, 32>>,
      \* <dc:description>hi</dc:description>
      xmp_element |->
          <<60, 100, 99, 58, 100, 101, 115, 99, 114, 105, 112, 116, 105, 111, 110,
            62, 104, 105, 60, 47, 100, 99, 58, 100, 101, 115, 99, 114, 105, 112,
            116, 105, 111, 110, 62>>,
      \* <rdf:Description dc:description="yo"/>
      xmp_attribute |->
          <<60, 114, 100, 102, 58, 68, 101, 115, 99, 114, 105, 112, 116, 105, 111,
            110, 32, 100, 99, 58, 100, 101, 115, 99, 114, 105, 112, 116, 105, 111,
            110, 61, 34, 121, 111, 34, 47, 62>>,
      \* <rdf:Description dc:description="yo"><dc:description>hi</dc:description></rdf:Description>
      xmp_both |->
          <<60, 114, 100, 102, 58, 68, 101, 115, 99, 114, 105, 112, 116, 105,
            111, 110, 32, 100, 99, 58, 100, 101, 115, 99, 114, 105, 112, 116,
            105, 111, 110, 61, 34, 121, 111, 34, 62, 60, 100, 99, 58, 100,
            101, 115, 99, 114, 105, 112, 116, 105, 111, 110, 62, 104, 105, 60,
            47, 100, 99, 58, 100, 101, 115, 99, 114, 105, 112, 116, 105, 111,
            110, 62, 60, 47, 114, 100, 102, 58, 68, 101, 115, 99, 114, 105,
            112, 116, 105, 111, 110, 62>> ]

QUOTE == 34

\* s[a..] of a 0-based string
From(s, a) == SubSeq(s, a + 1, Len(s))

\* Lines 139-166, chunks afterwards: the <dc:description> element (lines
\* 144-151) and the dc:description attribute (lines 154-165) each add a pair
parse_xmp_for_prompts(xmp_data, cs) ==
    LET start == find(xmp_data, WebpLit.tag_open) - 1
        end == find(From(xmp_data, start), WebpLit.tag_close) - 1
        desc == Slice(xmp_data, start + 16, start + end)
        element ==
            IF find(xmp_data, WebpLit.tag_open) = 0 THEN <<>>
            ELSE IF find(From(xmp_data, start), WebpLit.tag_close) = 0 THEN <<>>
            ELSE IF desc # <<>> THEN << <<WebpLit.key_description, desc>> >>
            ELSE <<>>
        rdf_start == find(xmp_data, WebpLit.tag_rdf) - 1
        desc_start == find(From(xmp_data, rdf_start), WebpLit.attr_open) - 1
        attr_start == rdf_start + desc_start + 16
        desc_end == find(From(xmp_data, attr_start), <<QUOTE>>) - 1
        attr_desc == Slice(xmp_data, attr_start, attr_start + desc_end)
        attribute ==
            IF find(xmp_data, WebpLit.tag_rdf) = 0 THEN <<>>
            ELSE IF find(From(xmp_data, rdf_start), WebpLit.attr_open) = 0 THEN <<>>
            ELSE IF find(From(xmp_data, attr_start), <<QUOTE>>) = 0 THEN <<>>
            ELSE IF attr_desc # <<>> THEN << <<WebpLit.key_description, attr_desc>> >>
            ELSE <<>>
    IN cs \o element \o attribute

-----------------------------------------------------------------------------
(* webp.rs: parse_webp_chunks, one loop iteration per action *)

\* The mutant of webp_is_webp: the WEBP test is missing.
webp_is_webp_unchecked == TRUE

\* Line 71: &data[8..12] == b"WEBP"
webp_is_webp == Slice(wdata, 8, 12) = WebpLit.WEBP

\* Lines 62-64: the buffer is shorter than the 12-byte header
WebpTooShort ==
    /\ wpc = "start"
    /\ Len(wdata) < 12
    /\ wpc' = "too_short"
    /\ UNCHANGED <<webp_file, wdata, woffset, wchunks>>
    /\ UNCHANGED notWebp

\* Lines 67-69
WebpNotRiff ==
    /\ wpc = "start"
    /\ ~(Len(wdata) < 12)
    /\ Slice(wdata, 0, 4) # WebpLit.RIFF
    /\ wpc' = "not_riff"
    /\ UNCHANGED <<webp_file, wdata, woffset, wchunks>>
    /\ UNCHANGED notWebp

\* Lines 71-73
WebpNotWebp ==
    /\ wpc = "start"
    /\ ~(Len(wdata) < 12)
    /\ Slice(wdata, 0, 4) = WebpLit.RIFF
    /\ ~webp_is_webp
    /\ wpc' = "not_webp"
    /\ UNCHANGED <<webp_file, wdata, woffset, wchunks>>
    /\ UNCHANGED notWebp

\* Line 75: the header is accepted
WebpEnter ==
    /\ wpc = "start"
    /\ ~(Len(wdata) < 12)
    /\ Slice(wdata, 0, 4) = WebpLit.RIFF
    /\ webp_is_webp
    /\ woffset' = 12
    /\ wpc' = "loop"
    /\ UNCHANGED <<webp_file, wdata, wchunks>>
    /\ UNCHANGED notWebp

\* The header fields the loop body reads at woffset (lines 83-96)
webp_chunk_type == from_utf8_lossy(Slice(wdata, woffset, woffset + 4))
webp_length == from_le_bytes(Slice(wdata, woffset + 4, woffset + 8))

\* Line 77 false: the while condition ends the loop
WebpEndOfData ==
    /\ wpc = "loop"
    /\ ~(woffset < Len(wdata))
    /\ wpc' = "end_of_data"
    /\ UNCHANGED <<webp_file, wdata, woffset, wchunks>>
    /\ UNCHANGED notWebp

\* Lines 78-80: fewer than 8 bytes are left for a chunk header
WebpShortHeader ==
    /\ wpc = "loop"
    /\ woffset < Len(wdata)
    /\ woffset + 8 > Len(wdata)
    /\ wpc' = "short_header"
    /\ UNCHANGED <<webp_file, wdata, woffset, wchunks>>
    /\ UNCHANGED notWebp

\* Lines 100-102: the payload does not fit in the buffer
WebpOverrun ==
    /\ wpc = "loop"
    /\ woffset < Len(wdata)
    /\ woffset + 8 <= Len(wdata)
    /\ woffset + 8 + webp_length > Len(wdata)
    /\ woffset' = woffset + 8
    /\ wpc' = "overrun"
    /\ UNCHANGED <<webp_file, wdata, wchunks>>
    /\ UNCHANGED notWebp

\* Lines 105-127: what the chunk at woffset adds to the pairs
webp_handle_chunk(cs) ==
    LET payload == Slice(wdata, woffset + 8, woffset + 8 + webp_length)
        text == from_utf8(payload)
    IN IF webp_chunk_type = WebpLit.EXIF
       THEN IF IsSome(text) THEN cs \o << <<WebpLit.key_EXIF, Unwrap(text)>> >> ELSE cs
       ELSE IF webp_chunk_type = WebpLit.XMP_
       THEN IF IsSome(text)
            THEN parse_xmp_for_prompts(Unwrap(text), cs) \o << <<WebpLit.key_XMP, Unwrap(text)>> >>
            ELSE cs
       ELSE cs

\* The mutant of webp_advance: the padding byte of an odd payload is not skipped.
webp_advance_unpadded(off, length) == off + 8 + length

\* Lines 84, 98, 129-133: the offset of the next chunk
webp_advance(off, length) ==
    IF length % 2 # 0 THEN off + 8 + length + 1 ELSE off + 8 + length

\* Lines 105-133: the chunk is interpreted and skipped
WebpChunk ==
    /\ wpc = "loop"
    /\ woffset < Len(wdata)
    /\ woffset + 8 <= Len(wdata)
    /\ woffset + 8 + webp_length <= Len(wdata)
    /\ wchunks' = webp_handle_chunk(wchunks)
    /\ woffset' = webp_advance(woffset, webp_length)
    /\ UNCHANGED <<webp_file, wdata, wpc>>
    /\ UNCHANGED notWebp

-----------------------------------------------------------------------------
(* The WebP files the reader is run on *)

\* A chunk with FourCC cc and the payload
WebpChunkOf(cc, payload) == [fourcc |-> cc, payload |-> payload, length |-> Len(payload)]

WebpChunkPool ==
    { WebpChunkOf(WebpLit.EXIF, <<101, 120>>),                 \* EXIF "ex"
      WebpChunkOf(WebpLit.EXIF, <<255, 216, 255>>),            \* EXIF, not UTF-8, odd length
      WebpChunkOf(WebpLit.XMP_, WebpLit.xmp_element),                  \* odd length
      WebpChunkOf(WebpLit.XMP_, WebpLit.xmp_attribute),
      WebpChunkOf(WebpLit.XMP_, WebpLit.xmp_both),
      WebpChunkOf(WebpLit.VP8_, <<1, 2, 3>>),                  \* image data, odd length
      \* an EXIF chunk whose declared length is 2^24 - 1
      [fourcc |-> WebpLit.EXIF, payload |-> <<101>>, length |-> 16777215] }

\* The chunks as written, each FourCC, little-endian length, payload, and a
\* padding byte after an odd payload
RECURSIVE WebpChunksBytes(_)
WebpChunksBytes(cs) ==
    IF cs = <<>> THEN <<>>
    ELSE LET c == Head(cs)
         IN c.fourcc \o to_le_bytes(c.length) \o c.payload \o
            (IF Len(c.payload) % 2 # 0 THEN <<0>> ELSE <<>>) \o
            WebpChunksBytes(Tail(cs))

\* The whole file: "RIFF", the size of what follows, "WEBP", the chunks
WebpFileBytes(f) ==
    f.riff \o to_le_bytes(4 + Len(WebpChunksBytes(f.chunks))) \o f.form \o
    WebpChunksBytes(f.chunks)

\* The 0-based offset at which chunk i of file f starts
WebpChunkStart(f, i) == 12 + Len(WebpChunksBytes(SubSeq(f.chunks, 1, i - 1)))

\* Every file with a good magic and form type and at most MaxWebpChunks
\* chunks, and every file with a bad magic or form type and at most one chunk,
\* whole or cut off anywhere in its last chunk (or, with no chunk, anywhere in
\* the header).
InitWebp ==
    /\ IdleExcept("webp")
    /\ webp_file \in [riff : {WebpLit.RIFF, <<82, 73, 70, 88>>},       \* "RIFF", "RIFX"
                      form : {WebpLit.WEBP, <<87, 65, 86, 69>>},       \* "WEBP", "WAVE"
                      chunks : BoundedSeq(WebpChunkPool, MaxWebpChunks)]
    /\ (webp_file.riff # WebpLit.RIFF \/ webp_file.form # WebpLit.WEBP) =>
          Len(webp_file.chunks) <= 1
    /\ \E cut \in 0..Len(WebpFileBytes(webp_file)) :
        /\ webp_file.chunks # <<>> =>
              cut > WebpChunkStart(webp_file, Len(webp_file.chunks))
        /\ wdata = SubSeq(WebpFileBytes(webp_file), 1, cut)
    /\ woffset = 0
    /\ wchunks = <<>>
    /\ wpc = "start"

NextWebp ==
    \/ WebpTooShort \/ WebpNotRiff \/ WebpNotWebp \/ WebpEnter
    \/ WebpEndOfData \/ WebpShortHeader \/ WebpOverrun \/ WebpChunk

SpecWebp == InitWebp /\ [][NextWebp]_vars

-----------------------------------------------------------------------------
(* serde_json::Value *)

JNull == [t |-> "null"]
JStr(s) == [t |-> "string", s |-> s]
JObj(kv) == [t |-> "object", kv |-> kv]       \* entries in the map's iteration order
JArr(items) == [t |-> "array", items |-> items]
\* serde_json::Number: PosInt(u64), NegInt(i64) (v is the magnitude) or Float
JPosInt(v) == [t |-> "number", repr |-> "PosInt", v |-> v]
JNegInt(v) == [t |-> "number", repr |-> "NegInt", v |-> v]
\* a finite float: sign, integer part and the decimal digits after the point
\* (no trailing zero: 7.0 has none, 7.5 has <<5>>)
JFloat(neg, int, frac) ==
    [t |-> "number", repr |-> "Float", neg |-> neg, int |-> int, frac |-> frac]

\* Value::get(key): Some(value) on an object that has the key
get(v, key) ==
    IF v.t # "object" THEN None
    ELSE LET hits == {i \in 1..Len(v.kv) : v.kv[i][1] = key}
         IN IF hits = {} THEN None ELSE Some(v.kv[CHOOSE i \in hits : TRUE][2])

\* Option<&Value>::and_then(|i| i.get(key))
and_then_get(o, key) == IF IsSome(o) THEN get(Unwrap(o), key) ELSE None

\* Option<&Value>::and_then(|v| v.as_str())
and_then_as_str(o) ==
    IF IsSome(o) /\ Unwrap(o).t = "string" THEN Some(Unwrap(o).s) ELSE None

\* Option<&Value>::and_then(|v| v.as_u64()): only a PosInt is a u64
and_then_as_u64(o) ==
    IF IsSome(o) /\ Unwrap(o).t = "number" /\ Unwrap(o).repr = "PosInt"
    THEN Some(Unwrap(o).v) ELSE None

\* Option<&Value>::and_then(|v| v.as_f64()): every number, as sign, integer
\* part and decimal digits
and_then_as_f64(o) ==
    IF IsSome(o) /\ Unwrap(o).t = "number"
    THEN LET n == Unwrap(o)
         IN Some(IF n.repr = "Float" THEN [neg |-> n.neg, int |-> n.int, frac |-> n.frac]
                 ELSE [neg |-> n.repr = "NegInt", int |-> n.v, frac |-> <<>>])
    ELSE None

\* u64::to_string: the decimal digits
RECURSIVE u64_to_string(_)
u64_to_string(n) ==
    IF n < 10 THEN <<48 + n>> ELSE u64_to_string(n \div 10) \o <<48 + (n % 10)>>

\* f64::to_string: no exponent, no ".0" on a whole number
f64_to_string(f) ==
    (IF f.neg THEN <<45>> ELSE <<>>) \o u64_to_string(f.int) \o
    (IF f.frac = <<>> THEN <<>> ELSE <<46>> \o [i \in 1..Len(f.frac) |-> 48 + f.frac[i]])

\* serde_json::from_str::<Value>(json_str): Some(tree), or None for Err
from_str(js) == IF js.ok THEN Some(js.tree) ELSE None

-----------------------------------------------------------------------------
(* comfyui.rs: parse_comfyui_workflow *)

\* Lines 21-32
EmptyWorkflow ==
    [readable_prompt |-> None, negative_prompt |-> None, model |-> None, seed |-> None,
     steps |-> None, cfg_scale |-> None, sampler |-> None, width |-> None,
     height |-> None, lora |-> None]

\* The strings of comfyui.rs
ComfyLit ==
      \* "Wildcard", "Text", "Prompt", "Loader", "Checkpoint", "Sampler", "Latent", "Empty"
    [ Wildcard |-> <<87, 105, 108, 100, 99, 97, 114, 100>>,
      Text |-> <<84, 101, 120, 116>>,
      Prompt |-> <<80, 114, 111, 109, 112, 116>>,
      Loader |-> <<76, 111, 97, 100, 101, 114>>,
      Checkpoint |-> <<67, 104, 101, 99, 107, 112, 111, 105, 110, 116>>,
      Sampler |-> <<83, 97, 109, 112, 108, 101, 114>>,
      Latent |-> <<76, 97, 116, 101, 110, 116>>,
      Empty |-> <<69, 109, 112, 116, 121>>,
      \* "lora"
      lora |-> <<108, 111, 114, 97>> ]

\* node.get("inputs").and_then(|i| i.get(key))
node_input(node, key) == and_then_get(get(node, "inputs"), key)

\* Lines 41, 68, 106, 145: the routing tests on class_type
is_prompt_class(ct) == contains(ct, ComfyLit.Wildcard) \/ contains(ct, ComfyLit.Text) \/ contains(ct, ComfyLit.Prompt)
is_loader_class(ct) == contains(ct, ComfyLit.Loader) \/ contains(ct, ComfyLit.Checkpoint)
is_sampler_class(ct) == contains(ct, ComfyLit.Sampler)
is_latent_class(ct) == contains(ct, ComfyLit.Latent) \/ contains(ct, ComfyLit.Empty)

\* The mutant of row_prompt: populated_text is stored without the is_none test.
row_prompt_overwriting(wf, node) ==
    LET populated_text == and_then_as_str(node_input(node, "populated_text"))
        wildcard_text == and_then_as_str(node_input(node, "wildcard_text"))
        wf1 == IF IsSome(populated_text) /\ Unwrap(populated_text) # <<>>
               THEN [wf EXCEPT !.readable_prompt = populated_text]
               ELSE wf
    IN IF IsNone(wf1.readable_prompt) /\ IsSome(wildcard_text) /\ Unwrap(wildcard_text) # <<>>
       THEN [wf1 EXCEPT !.readable_prompt = wildcard_text]
       ELSE wf1

\* The mutant of row_prompt: wildcard_text is preferred to populated_text.
row_prompt_wildcard_first(wf, node) ==
    LET populated_text == and_then_as_str(node_input(node, "populated_text"))
        wildcard_text == and_then_as_str(node_input(node, "wildcard_text"))
        wf1 == IF IsNone(wf.readable_prompt) /\ IsSome(wildcard_text)
                  /\ Unwrap(wildcard_text) # <<>>
               THEN [wf EXCEPT !.readable_prompt = wildcard_text]
               ELSE wf
    IN IF IsNone(wf1.readable_prompt) /\ IsSome(populated_text)
          /\ Unwrap(populated_text) # <<>>
       THEN [wf1 EXCEPT !.readable_prompt = populated_text]
       ELSE wf1

\* Lines 43-64: populated_text, else wildcard_text, into readable_prompt
row_prompt(wf, node) ==
    LET populated_text == and_then_as_str(node_input(node, "populated_text"))
        wildcard_text == and_then_as_str(node_input(node, "wildcard_text"))
        wf1 == IF IsSome(populated_text) /\ IsNone(wf.readable_prompt)
                  /\ Unwrap(populated_text) # <<>>
               THEN [wf EXCEPT !.readable_prompt = populated_text]
               ELSE wf
    IN IF IsNone(wf1.readable_prompt) /\ IsSome(wildcard_text) /\ Unwrap(wildcard_text) # <<>>
       THEN [wf1 EXCEPT !.readable_prompt = wildcard_text]
       ELSE wf1

\* Lines 70-102: ckpt_name, negative and lora_name, each if its field is unset
row_loader(wf, node) ==
    LET ckpt_name == and_then_as_str(node_input(node, "ckpt_name"))
        negative == and_then_as_str(node_input(node, "negative"))
        lora_name == and_then_as_str(node_input(node, "lora_name"))
        wf1 == IF IsNone(wf.model) /\ IsSome(ckpt_name)
               THEN [wf EXCEPT !.model = ckpt_name] ELSE wf
        wf2 == IF IsNone(wf1.negative_prompt) /\ IsSome(negative) /\ Unwrap(negative) # <<>>
               THEN [wf1 EXCEPT !.negative_prompt = negative] ELSE wf1
    IN IF IsNone(wf2.lora) /\ IsSome(lora_name)
       THEN [wf2 EXCEPT !.lora = lora_name] ELSE wf2

\* The mutant of row_sampler: each field is written only while unset.
row_sampler_first_wins(wf, node) ==
    LET steps == and_then_as_u64(node_input(node, "steps"))
        cfg == and_then_as_f64(node_input(node, "cfg"))
        sampler_name == and_then_as_str(node_input(node, "sampler_name"))
        seed == and_then_as_u64(node_input(node, "seed"))
        wf1 == IF IsSome(steps) /\ IsNone(wf.steps)
               THEN [wf EXCEPT !.steps = Some(u64_to_string(Unwrap(steps)))] ELSE wf
        wf2 == IF IsSome(cfg) /\ IsNone(wf1.cfg_scale)
               THEN [wf1 EXCEPT !.cfg_scale = Some(f64_to_string(Unwrap(cfg)))] ELSE wf1
        wf3 == IF IsSome(sampler_name) /\ IsNone(wf2.sampler)
               THEN [wf2 EXCEPT !.sampler = sampler_name] ELSE wf2
    IN IF IsSome(seed) /\ IsNone(wf3.seed)
       THEN [wf3 EXCEPT !.seed = Some(u64_to_string(Unwrap(seed)))] ELSE wf3

\* Lines 108-141: steps, cfg, sampler_name and seed, each written when present
row_sampler(wf, node) ==
    LET steps == and_then_as_u64(node_input(node, "steps"))
        cfg == and_then_as_f64(node_input(node, "cfg"))
        sampler_name == and_then_as_str(node_input(node, "sampler_name"))
        seed == and_then_as_u64(node_input(node, "seed"))
        wf1 == IF IsSome(steps)
               THEN [wf EXCEPT !.steps = Some(u64_to_string(Unwrap(steps)))] ELSE wf
        wf2 == IF IsSome(cfg)
               THEN [wf1 EXCEPT !.cfg_scale = Some(f64_to_string(Unwrap(cfg)))] ELSE wf1
        wf3 == IF IsSome(sampler_name)
               THEN [wf2 EXCEPT !.sampler = sampler_name] ELSE wf2
    IN IF IsSome(seed)
       THEN [wf3 EXCEPT !.seed = Some(u64_to_string(Unwrap(seed)))] ELSE wf3

\* Lines 147-162: width and height, each written when present
row_latent(wf, node) ==
    LET width == and_then_as_u64(node_input(node, "width"))
        height == and_then_as_u64(node_input(node, "height"))
        wf1 == IF IsSome(width)
               THEN [wf EXCEPT !.width = Some(u64_to_string(Unwrap(width)))] ELSE wf
    IN IF IsSome(height)
       THEN [wf1 EXCEPT !.height = Some(u64_to_string(Unwrap(height)))] ELSE wf1

\* Lines 38-165: the body of the loop over the top-level object, for one entry
visit_node(wf, node_value) ==
    LET class_type == and_then_as_str(get(node_value, "class_type"))
        ct == Unwrap(class_type)
        wf1 == IF is_prompt_class(ct) THEN row_prompt(wf, node_value) ELSE wf
        wf2 == IF is_loader_class(ct) THEN row_loader(wf1, node_value) ELSE wf1
        wf3 == IF is_sampler_class(ct) THEN row_sampler(wf2, node_value) ELSE wf2
        wf4 == IF is_latent_class(ct) THEN row_latent(wf3, node_value) ELSE wf3
    IN IF node_value.t # "object" THEN wf
       ELSE IF IsNone(class_type) THEN wf
       ELSE wf4

\* The whole loop (lines 35-167) over entries kv, from workflow wf
RECURSIVE visit_nodes(_, _)
visit_nodes(wf, kv) ==
    IF kv = <<>> THEN wf ELSE visit_nodes(visit_node(wf, Head(kv)[2]), Tail(kv))

\* parse_comfyui_workflow(json_str): Some(workflow), or None for Err
parse_comfyui_workflow(js) ==
    IF IsNone(from_str(js)) THEN None
    ELSE IF Unwrap(from_str(js)).t = "object"
    THEN Some(visit_nodes(EmptyWorkflow, Unwrap(from_str(js)).kv))
    ELSE Some(EmptyWorkflow)

-----------------------------------------------------------------------------
(* comfyui.rs: find_populated_text_in_json and apply_comfyui_to_metadata *)

RECURSIVE find_populated_text_in_json(_)
RECURSIVE find_in_values(_)

\* Lines 276-280 and 284-288: the first value, in order, that holds a text
find_in_values(vs) ==
    IF vs = <<>> THEN None
    ELSE IF IsSome(find_populated_text_in_json(Head(vs)))
    THEN find_populated_text_in_json(Head(vs))
    ELSE find_in_values(Tail(vs))

\* Lines 261-293
find_populated_text_in_json(value) ==
    IF value.t = "object"
    THEN LET text == and_then_as_str(and_then_get(get(value, "inputs"), "populated_text"))
         IN IF IsSome(text) /\ Unwrap(text) # <<>> THEN text
            ELSE find_in_values([i \in 1..Len(value.kv) |-> value.kv[i][2]])
    ELSE IF value.t = "array" THEN find_in_values(value.items)
    ELSE None

\* parser.rs, ExtractedMetadata::empty
EmptyMetadata ==
    [prompt |-> None, negative_prompt |-> None, parameters |-> None, model |-> None,
     seed |-> None, steps |-> None, cfg_scale |-> None, sampler |-> None, size |-> None,
     other |-> <<>>]

LETTER_X == 120

\* The mutant of set_if_none: a value of the workflow replaces the caller's.
set_if_none_overwriting(md, g, value) ==
    IF IsSome(value) THEN [md EXCEPT ![g] = value] ELSE md

\* Lines 197-240: workflow field f goes to metadata field g if g is unset
set_if_none(md, g, value) ==
    IF IsSome(value) /\ IsNone(md[g]) THEN [md EXCEPT ![g] = value] ELSE md

\* Lines 181-246: the Ok branch
apply_workflow(wf, js, md) ==
    LET fallback == IF IsSome(from_str(js))
                    THEN find_populated_text_in_json(Unwrap(from_str(js)))
                    ELSE None
        m1 == IF IsSome(wf.readable_prompt) THEN [md EXCEPT !.prompt = wf.readable_prompt]
              ELSE IF IsSome(fallback) THEN [md EXCEPT !.prompt = fallback]
              ELSE md
        m2 == set_if_none(m1, "negative_prompt", wf.negative_prompt)
        m3 == set_if_none(m2, "model", wf.model)
        m4 == set_if_none(m3, "seed", wf.seed)
        m5 == set_if_none(m4, "steps", wf.steps)
        m6 == set_if_none(m5, "cfg_scale", wf.cfg_scale)
        m7 == set_if_none(m6, "sampler", wf.sampler)
        m8 == IF IsSome(wf.width) /\ IsSome(wf.height)
              THEN set_if_none(m7, "size",
                               Some(Unwrap(wf.width) \o <<LETTER_X>> \o Unwrap(wf.height)))
              ELSE m7
    IN IF IsSome(wf.lora)
       THEN [m8 EXCEPT !.other = Append(m8.other, <<ComfyLit.lora, Unwrap(wf.lora)>>)]
       ELSE m8

\* Lines 247-257: the Err branch parses json_str again, with the same parser
apply_parse_error(js, md) ==
    LET json == from_str(js)
        found == IF IsSome(json) THEN find_populated_text_in_json(Unwrap(json)) ELSE None
    IN IF IsSome(json) /\ IsSome(found) /\ IsNone(md.prompt)
       THEN [md EXCEPT !.prompt = found]
       ELSE md

\* apply_comfyui_to_metadata(json_str, metadata): metadata afterwards
apply_comfyui_to_metadata(js, md) ==
    IF IsSome(parse_comfyui_workflow(js))
    THEN apply_workflow(Unwrap(parse_comfyui_workflow(js)), js, md)
    ELSE apply_parse_error(js, md)

-----------------------------------------------------------------------------
(* apply_comfyui_to_metadata, step by step *)

\* Line 19 fails: parse_comfyui_workflow returns Err
ComfyParseError ==
    /\ cpc = "start"
    /\ IsNone(from_str(json_str))
    /\ cpc' = "parse_err"
    /\ UNCHANGED <<json_str, metadata_in, metadata, workflow, node_idx>>
    /\ UNCHANGED notComfy

\* Lines 19-35: the text parses; the loop runs only over an object
ComfyParsed ==
    /\ cpc = "start"
    /\ IsSome(from_str(json_str))
    /\ workflow' = EmptyWorkflow
    /\ node_idx' = 0
    /\ cpc' = IF Unwrap(from_str(json_str)).t = "object" THEN "nodes" ELSE "parsed"
    /\ UNCHANGED <<json_str, metadata_in, metadata>>
    /\ UNCHANGED notComfy

\* The loop if the map handed out its entries from the last to the first
ComfyNodeBackwards ==
    /\ cpc = "nodes"
    /\ node_idx < Len(json_str.tree.kv)
    /\ workflow' = visit_node(workflow, json_str.tree.kv[Len(json_str.tree.kv) - node_idx][2])
    /\ node_idx' = node_idx + 1
    /\ UNCHANGED <<json_str, metadata_in, metadata, cpc>>
    /\ UNCHANGED notComfy

\* Lines 36-166: one entry of the top-level object
ComfyNode ==
    /\ cpc = "nodes"
    /\ node_idx < Len(json_str.tree.kv)
    /\ workflow' = visit_node(workflow, json_str.tree.kv[node_idx + 1][2])
    /\ node_idx' = node_idx + 1
    /\ UNCHANGED <<json_str, metadata_in, metadata, cpc>>
    /\ UNCHANGED notComfy

\* Line 169: Ok(workflow)
ComfyReturn ==
    /\ cpc = "nodes"
    /\ node_idx = Len(json_str.tree.kv)
    /\ cpc' = "parsed"
    /\ UNCHANGED <<json_str, metadata_in, metadata, workflow, node_idx>>
    /\ UNCHANGED notComfy

\* Lines 181-246
ComfyApply ==
    /\ cpc = "parsed"
    /\ metadata' = apply_workflow(workflow, json_str, metadata)
    /\ cpc' = "applied"
    /\ UNCHANGED <<json_str, metadata_in, workflow, node_idx>>
    /\ UNCHANGED notComfy

\* Lines 247-257
ComfyApplyError ==
    /\ cpc = "parse_err"
    /\ metadata' = apply_parse_error(json_str, metadata)
    /\ cpc' = "applied_err"
    /\ UNCHANGED <<json_str, metadata_in, workflow, node_idx>>
    /\ UNCHANGED notComfy

-----------------------------------------------------------------------------
(* The workflow texts apply_comfyui_to_metadata is run on *)

\* The nodes the graphs are made of
Nodes ==
      \* node "65" of the test: ImpactWildcardProcessor, populated_text
    [ Node65 |->
          JObj(<< <<"class_type", JStr(<<73, 109, 112, 97, 99, 116, 87, 105, 108, 100, 99, 97, 114, 100, 80, 114, 111, 99, 101, 115, 115, 111, 114>>)>>,
                 <<"inputs",
                 JObj(<< <<"populated_text", JStr(<<98, 101, 97, 117, 116, 105, 102, 117, 108, 32, 108, 97, 110, 100, 115, 99, 97, 112, 101, 44, 32, 109, 111, 117, 110, 116, 97, 105, 110, 115, 44, 32, 115, 117, 110, 115, 101, 116, 44, 32, 104, 105, 103, 104, 108, 121, 32, 100, 101, 116, 97, 105, 108, 101, 100>>)>> >>)>> >>),
      \* node "35" of the test: Efficient Loader, ckpt_name and negative
      Node35 |->
          JObj(<< <<"class_type", JStr(<<69, 102, 102, 105, 99, 105, 101, 110, 116, 32, 76, 111, 97, 100, 101, 114>>)>>,
                 <<"inputs",
                 JObj(<< <<"ckpt_name", JStr(<<115, 100, 120, 108, 47, 115, 100, 95, 120, 108, 95, 98, 97, 115, 101, 95, 49, 46, 48, 46, 115, 97, 102, 101, 116, 101, 110, 115, 111, 114, 115>>)>>,
                       <<"negative", JStr(<<98, 108, 117, 114, 114, 121, 44, 32, 108, 111, 119, 32, 113, 117, 97, 108, 105, 116, 121>>)>> >>)>> >>),
      \* node "21" of the test: KSampler (Efficient), steps 20, cfg 7.0, dpm_2, seed 12345
      Node21 |->
          JObj(<< <<"class_type", JStr(<<75, 83, 97, 109, 112, 108, 101, 114, 32, 40, 69, 102, 102, 105, 99, 105, 101, 110, 116, 41>>)>>,
                 <<"inputs",
                 JObj(<< <<"cfg", JFloat(FALSE, 7, <<>>)>>,
                       <<"sampler_name", JStr(<<100, 112, 109, 95, 50>>)>>,
                       <<"seed", JPosInt(12345)>>,
                       <<"steps", JPosInt(20)>> >>)>> >>),
      \* CLIPTextEncode, populated_text "" and wildcard_text "dog"
      NodeText |->
          JObj(<< <<"class_type", JStr(<<67, 76, 73, 80, 84, 101, 120, 116, 69, 110, 99, 111, 100, 101>>)>>,
                 <<"inputs",
                 JObj(<< <<"populated_text", JStr(<<>>)>>,
                       <<"wildcard_text", JStr(<<100, 111, 103>>)>> >>)>> >>),
      \* WildcardPrompt, populated_text "cat" and wildcard_text "__pet__"
      NodeBoth |->
          JObj(<< <<"class_type", JStr(<<87, 105, 108, 100, 99, 97, 114, 100, 80, 114, 111, 109, 112, 116>>)>>,
                 <<"inputs",
                 JObj(<< <<"populated_text", JStr(<<99, 97, 116>>)>>,
                       <<"wildcard_text", JStr(<<95, 95, 112, 101, 116, 95, 95>>)>> >>)>> >>),
      \* Note (no row matches), populated_text "note"
      NodeNote |->
          JObj(<< <<"class_type", JStr(<<78, 111, 116, 101>>)>>,
                 <<"inputs",
                 JObj(<< <<"populated_text", JStr(<<110, 111, 116, 101>>)>> >>)>> >>),
      \* LoraLoader, lora_name "l1", negative "" and a ckpt_name that is no string
      NodeLora |->
          JObj(<< <<"class_type", JStr(<<76, 111, 114, 97, 76, 111, 97, 100, 101, 114>>)>>,
                 <<"inputs",
                 JObj(<< <<"ckpt_name", JNull>>,
                       <<"lora_name", JStr(<<108, 49>>)>>,
                       <<"negative", JStr(<<>>)>> >>)>> >>),
      \* CheckpointSimple, ckpt_name "m2", negative "bad", lora_name "l2"
      NodeCkpt |->
          JObj(<< <<"class_type", JStr(<<67, 104, 101, 99, 107, 112, 111, 105, 110, 116, 83, 105, 109, 112, 108, 101>>)>>,
                 <<"inputs",
                 JObj(<< <<"ckpt_name", JStr(<<109, 50>>)>>,
                       <<"lora_name", JStr(<<108, 50>>)>>,
                       <<"negative", JStr(<<98, 97, 100>>)>> >>)>> >>),
      \* SamplerCustom, steps 30, cfg 8, sampler_name "euler", seed 7
      NodeSampler2 |->
          JObj(<< <<"class_type", JStr(<<83, 97, 109, 112, 108, 101, 114, 67, 117, 115, 116, 111, 109>>)>>,
                 <<"inputs",
                 JObj(<< <<"cfg", JPosInt(8)>>,
                       <<"sampler_name", JStr(<<101, 117, 108, 101, 114>>)>>,
                       <<"seed", JPosInt(7)>>,
                       <<"steps", JPosInt(30)>> >>)>> >>),
      \* KSampler, steps -1, cfg 7.5, seed 2.5, sampler_name missing
      NodeSampler3 |->
          JObj(<< <<"class_type", JStr(<<75, 83, 97, 109, 112, 108, 101, 114>>)>>,
                 <<"inputs",
                 JObj(<< <<"cfg", JFloat(FALSE, 7, <<5>>)>>,
                       <<"seed", JFloat(FALSE, 2, <<5>>)>>,
                       <<"steps", JNegInt(1)>> >>)>> >>),
      \* EmptyLatentImage, width 512 and height 768
      NodeLatent |->
          JObj(<< <<"class_type", JStr(<<69, 109, 112, 116, 121, 76, 97, 116, 101, 110, 116, 73, 109, 97, 103, 101>>)>>,
                 <<"inputs",
                 JObj(<< <<"height", JPosInt(768)>>,
                       <<"width", JPosInt(512)>> >>)>> >>),
      \* LatentUpscale, width 1024 and no height
      NodeUpscale |->
          JObj(<< <<"class_type", JStr(<<76, 97, 116, 101, 110, 116, 85, 112, 115, 99, 97, 108, 101>>)>>,
                 <<"inputs",
                 JObj(<< <<"width", JPosInt(1024)>> >>)>> >>),
      \* TextLoaderSampler: three rows match
      NodeMulti |->
          JObj(<< <<"class_type", JStr(<<84, 101, 120, 116, 76, 111, 97, 100, 101, 114, 83, 97, 109, 112, 108, 101, 114>>)>>,
                 <<"inputs",
                 JObj(<< <<"ckpt_name", JStr(<<109, 51>>)>>,
                       <<"populated_text", JStr(<<111, 119, 108>>)>>,
                       <<"steps", JPosInt(9)>> >>)>> >>),
      \* An entry that is no object, one without class_type, one without inputs
      NodeScalar |-> JPosInt(1),
      NodeNoClass |->
          JObj(<< <<"inputs", JObj(<< <<"populated_text", JStr(<<104, 105>>)>> >>)>> >>),
      NodeNoInputs |->
          JObj(<< <<"class_type", JStr(ComfyLit.Sampler)>>, <<"inputs", JNull>> >>) ]

NodePool ==
    {Nodes.Node65, Nodes.Node35, Nodes.Node21, Nodes.NodeText, Nodes.NodeBoth, Nodes.NodeNote, Nodes.NodeLora, Nodes.NodeCkpt,
     Nodes.NodeSampler2, Nodes.NodeSampler3, Nodes.NodeLatent, Nodes.NodeUpscale, Nodes.NodeMulti, Nodes.NodeNoClass}

\* The flat object keyed by node id, visited in the order of ns
Graph(ns) == JObj([i \in 1..Len(ns) |-> <<ToString(i), ns[i]>>])

\* One node's graph as it is, with an entry that is no node before it, inside
\* an array or under a "prompt" key; and a scalar
SmallTrees ==
    {Graph(<<n>>) : n \in NodePool}
    \cup {Graph(<<x, n>>) : x \in {Nodes.NodeScalar, Nodes.NodeNoInputs}, n \in {Nodes.Node65, Nodes.Node21}}
    \cup {JArr(<<Graph(<<n>>)>>) : n \in {Nodes.Node65, Nodes.NodeNote, Nodes.Node21}}
    \cup {JObj(<< <<"prompt", Graph(<<n>>)>> >>) : n \in {Nodes.Node65, Nodes.NodeNote, Nodes.Node21}}
    \cup {JStr(<<>>)}

\* "old": a value the caller's metadata may already hold
OLD == <<111, 108, 100>>

\* The caller's metadata: empty, with a prompt, or with every field set
CallerMetadata ==
    { EmptyMetadata,
      [EmptyMetadata EXCEPT !.prompt = Some(OLD)],
      [prompt |-> Some(OLD), negative_prompt |-> Some(OLD), parameters |-> Some(OLD),
       model |-> Some(OLD), seed |-> Some(OLD), steps |-> Some(OLD),
       cfg_scale |-> Some(OLD), sampler |-> Some(OLD), size |-> Some(OLD),
       other |-> << <<ComfyLit.lora, OLD>> >>] }

\* A text that parses to tree (the graphs of at most MaxNodes different nodes, in every
\* order, and the small trees), or a malformed text (say, cut off before its
\* last brace) that spells tree
InitComfy ==
    /\ IdleExcept("comfy")
    /\ json_str \in
          {[ok |-> TRUE, tree |-> Graph(ns)] :
              ns \in {s \in BoundedSeq(NodePool, MaxNodes) :
                         \A i, j \in 1..Len(s) : s[i] = s[j] => i = j}}
          \cup {[ok |-> TRUE, tree |-> t] : t \in SmallTrees}
          \cup {[ok |-> FALSE, tree |-> t] : t \in SmallTrees}
    /\ metadata_in \in CallerMetadata
    /\ metadata = metadata_in
    /\ workflow = EmptyWorkflow
    /\ node_idx = 0
    /\ cpc = "start"

SpecComfy ==
    /\ InitComfy
    /\ [][\/ ComfyParseError \/ ComfyParsed \/ ComfyNode
           \/ ComfyReturn \/ ComfyApply \/ ComfyApplyError]_vars

-----------------------------------------------------------------------------
(* png.rs, parse_parameters_string (lines 137-187) *)

\* "Negative prompt:" and the labels of the final line
Labels ==
    [ negative |->
          <<78, 101, 103, 97, 116, 105, 118, 101, 32, 112, 114, 111,
          109, 112, 116, 58>>,
      steps |-> <<83, 116, 101, 112, 115, 58>>,
      sampler |-> <<83, 97, 109, 112, 108, 101, 114, 58>>,
      cfg_scale |-> <<67, 70, 71, 32, 115, 99, 97, 108, 101, 58>>,
      seed |-> <<83, 101, 101, 100, 58>>,
      size |-> <<83, 105, 122, 101, 58>>,
      model |-> <<77, 111, 100, 101, 108, 58>>,
      model_hash |-> <<77, 111, 100, 101, 108, 32, 104, 97, 115, 104, 58>> ]

\* str::strip_prefix
strip_prefix(s, p) ==
    IF starts_with(s, p) THEN Some(SubSeq(s, Len(p) + 1, Len(s))) ELSE None

\* The negative prompt loop with the write guarded by the field being unset
RECURSIVE params_negative_if_unset(_, _)
params_negative_if_unset(md, ls) ==
    IF ls = <<>> THEN md
    ELSE LET line == trim(Head(ls))
             neg_prompt == IF IsSome(strip_prefix(line, Labels.negative))
                           THEN trim(Unwrap(strip_prefix(line, Labels.negative)))
                           ELSE <<>>
         IN params_negative_if_unset(
                IF starts_with(line, Labels.negative) /\ neg_prompt # <<>>
                   /\ IsNone(md.negative_prompt)
                THEN [md EXCEPT !.negative_prompt = Some(neg_prompt)]
                ELSE md,
                Tail(ls))

\* Lines 155-162: every line that, trimmed, starts with "Negative prompt:"
\* and has text after the label sets negative_prompt
RECURSIVE params_negative(_, _)
params_negative(md, ls) ==
    IF ls = <<>> THEN md
    ELSE LET line == trim(Head(ls))
             neg_prompt == IF IsSome(strip_prefix(line, Labels.negative))
                           THEN trim(Unwrap(strip_prefix(line, Labels.negative)))
                           ELSE <<>>
         IN params_negative(
                IF starts_with(line, Labels.negative) /\ neg_prompt # <<>>
                THEN [md EXCEPT !.negative_prompt = Some(neg_prompt)]
                ELSE md,
                Tail(ls))

\* Lines 150-162 without the is_none test on the prompt
params_head_overwriting(md, ls) ==
    params_negative([md EXCEPT !.prompt = Some(trim(ls[1]))], ls)

\* Lines 150-162: the prompt from the first line, then the negative prompt
params_head(md, ls) ==
    params_negative(
        IF IsNone(md.prompt) THEN [md EXCEPT !.prompt = Some(trim(ls[1]))] ELSE md,
        ls)

\* Line 165: lines.last().unwrap_or(&"")
params_line(ls) == IF ls = <<>> THEN <<>> ELSE ls[Len(ls)]

\* The label chain with every write guarded by the field being unset
params_part_if_unset(md, raw) ==
    LET part == trim(raw)
        set(g, l) == IF IsNone(md[g])
                     THEN [md EXCEPT ![g] = Some(trim(Unwrap(strip_prefix(part, l))))]
                     ELSE md
    IN IF starts_with(part, Labels.steps) THEN set("steps", Labels.steps)
       ELSE IF starts_with(part, Labels.sampler) THEN set("sampler", Labels.sampler)
       ELSE IF starts_with(part, Labels.cfg_scale) THEN set("cfg_scale", Labels.cfg_scale)
       ELSE IF starts_with(part, Labels.seed) THEN set("seed", Labels.seed)
       ELSE IF starts_with(part, Labels.size) THEN set("size", Labels.size)
       ELSE IF starts_with(part, Labels.model) THEN set("model", Labels.model)
       ELSE md

\* Lines 168-186: one segment of the final line
params_part(md, raw) ==
    LET part == trim(raw)
        \* strip_prefix(l).map(|s| s.trim().to_string()), Some after starts_with(l)
        set(g, l) == [md EXCEPT ![g] = Some(trim(Unwrap(strip_prefix(part, l))))]
    IN IF starts_with(part, Labels.steps) THEN set("steps", Labels.steps)
       ELSE IF starts_with(part, Labels.sampler) THEN set("sampler", Labels.sampler)
       ELSE IF starts_with(part, Labels.cfg_scale) THEN set("cfg_scale", Labels.cfg_scale)
       ELSE IF starts_with(part, Labels.seed) THEN set("seed", Labels.seed)
       ELSE IF starts_with(part, Labels.size) THEN set("size", Labels.size)
       ELSE IF starts_with(part, Labels.model) THEN set("model", Labels.model)
       ELSE IF contains(part, Labels.model_hash) THEN md
       ELSE md

RECURSIVE params_parts(_, _)
params_parts(md, parts) ==
    IF parts = <<>> THEN md
    ELSE params_parts(params_part(md, Head(parts)), Tail(parts))

\* Lines 137-187, as one function of the string and the metadata
parse_parameters_string(s, md) ==
    IF lines(s) = <<>> THEN md
    ELSE params_parts(params_head(md, lines(s)), split(params_line(lines(s)), COMMA))

\* Lines 145-147
ParamsNoLines ==
    /\ qpc = "start"
    /\ lines(params) = <<>>
    /\ qpc' = "returned"
    /\ UNCHANGED <<params, pmeta_in, pmeta, part_idx>>
    /\ UNCHANGED notParams

\* Lines 149-165
ParamsHead ==
    /\ qpc = "start"
    /\ lines(params) # <<>>
    /\ pmeta' = params_head(pmeta, lines(params))
    /\ qpc' = "parts"
    /\ UNCHANGED <<params, pmeta_in, part_idx>>
    /\ UNCHANGED notParams

\* Lines 168-186, one turn of the loop
ParamsPart ==
    /\ qpc = "parts"
    /\ LET parts == split(params_line(lines(params)), COMMA)
       IN /\ part_idx < Len(parts)
          /\ pmeta' = params_part(pmeta, parts[part_idx + 1])
    /\ part_idx' = part_idx + 1
    /\ UNCHANGED <<params, pmeta_in, qpc>>
    /\ UNCHANGED notParams

\* Line 187
ParamsReturn ==
    /\ qpc = "parts"
    /\ part_idx = Len(split(params_line(lines(params)), COMMA))
    /\ qpc' = "returned"
    /\ UNCHANGED <<params, pmeta_in, pmeta, part_idx>>
    /\ UNCHANGED notParams

\* The lines and the segments the parameter strings are made of
ParamsLit ==
      \* "a cat"
    [ line_prompt |-> <<97, 32, 99, 97, 116>>,
      \* " cat, dog "
      line_prompt_list |-> <<32, 99, 97, 116, 44, 32, 100, 111, 103, 32>>,
      \* "Negative prompt: blurry, low quality"
      line_negative |->
          <<78, 101, 103, 97, 116, 105, 118, 101, 32, 112, 114, 111,
          109, 112, 116, 58, 32, 98, 108, 117, 114, 114, 121, 44, 32, 108, 111, 119,
          32, 113, 117, 97, 108, 105, 116, 121>>,
      \* "Negative prompt: bad"
      line_negative_other |->
          <<78, 101, 103, 97, 116, 105, 118, 101, 32, 112, 114,
          111, 109, 112, 116, 58, 32, 98, 97, 100>>,
      \* "Negative prompt: "
      line_negative_empty |->
          <<78, 101, 103, 97, 116, 105, 118, 101, 32, 112, 114,
          111, 109, 112, 116, 58, 32>>,
      \* "Steps: 50, Seed: 1"
      line_labels |->
          <<83, 116, 101, 112, 115, 58, 32, 53, 48, 44, 32, 83, 101, 101,
          100, 58, 32, 49>>,
      \* "Steps: 20"
      seg_steps |-> <<83, 116, 101, 112, 115, 58, 32, 50, 48>>,
      \* " Steps: 30"
      seg_steps_again |-> <<32, 83, 116, 101, 112, 115, 58, 32, 51, 48>>,
      \* "Steps:"
      seg_steps_empty |-> <<83, 116, 101, 112, 115, 58>>,
      \* "x Steps: 9"
      seg_steps_inside |-> <<120, 32, 83, 116, 101, 112, 115, 58, 32, 57>>,
      \* " Sampler: Euler a"
      seg_sampler |->
          <<32, 83, 97, 109, 112, 108, 101, 114, 58, 32, 69, 117, 108,
          101, 114, 32, 97>>,
      \* " Seed:12345 "
      seg_seed |-> <<32, 83, 101, 101, 100, 58, 49, 50, 51, 52, 53, 32>>,
      \* " Model: m1"
      seg_model |-> <<32, 77, 111, 100, 101, 108, 58, 32, 109, 49>>,
      \* " Model hash: abc"
      seg_model_hash |->
          <<32, 77, 111, 100, 101, 108, 32, 104, 97, 115, 104, 58, 32,
          97, 98, 99>>,
      \* "beautiful landscape, mountains, sunset"
      example_line_prompt |->
          <<98, 101, 97, 117, 116, 105, 102, 117, 108, 32, 108,
          97, 110, 100, 115, 99, 97, 112, 101, 44, 32, 109, 111, 117, 110, 116, 97,
          105, 110, 115, 44, 32, 115, 117, 110, 115, 101, 116>>,
      \* "Steps: 20, Sampler: Euler a, CFG scale: 7, Seed: 12345, Size: 512x512, Model: stable-diffusion-v1-5"
      example_line_labels |->
          <<83, 116, 101, 112, 115, 58, 32, 50, 48, 44, 32, 83,
          97, 109, 112, 108, 101, 114, 58, 32, 69, 117, 108, 101, 114, 32, 97, 44,
          32, 67, 70, 71, 32, 115, 99, 97, 108, 101, 58, 32, 55, 44, 32, 83, 101,
          101, 100, 58, 32, 49, 50, 51, 52, 53, 44, 32, 83, 105, 122, 101, 58, 32,
          53, 49, 50, 120, 53, 49, 50, 44, 32, 77, 111, 100, 101, 108, 58, 32, 115,
          116, 97, 98, 108, 101, 45, 100, 105, 102, 102, 117, 115, 105, 111, 110,
          45, 118, 49, 45, 53>> ]

\* The test's string (lines 195-197), which is the spec's example
ParamsExample ==
    join(<<ParamsLit.example_line_prompt, ParamsLit.line_negative,
           ParamsLit.example_line_labels>>, <<LF>>)

\* Some lines, then a final line of comma-separated segments, with or
\* without a line end after it
ParamsBlob(head, segs, ending) ==
    join(head \o <<join(segs, <<COMMA>>)>>, <<LF>>) \o ending

InitParams ==
    /\ IdleExcept("params")
    /\ params \in
          { ParamsBlob(head, segs, ending) :
              head \in
                  { <<>>,
                    <<ParamsLit.line_prompt>>,
                    << <<>> >>,
                    <<ParamsLit.line_prompt_list, ParamsLit.line_negative>>,
                    <<ParamsLit.line_prompt, ParamsLit.line_negative_empty>>,
                    <<ParamsLit.line_negative_other, ParamsLit.line_negative>>,
                    <<ParamsLit.line_prompt, ParamsLit.line_labels>>,
                    <<ParamsLit.line_negative, ParamsLit.line_labels, ParamsLit.line_prompt>> },
              segs \in BoundedSeq(
                  { ParamsLit.seg_steps, ParamsLit.seg_steps_again, ParamsLit.seg_steps_empty,
                    ParamsLit.seg_steps_inside, ParamsLit.seg_sampler, ParamsLit.seg_seed,
                    ParamsLit.seg_model, ParamsLit.seg_model_hash }, MaxParts),
              ending \in {<<>>, <<CR, LF>>} }
          \cup {ParamsExample}
    /\ pmeta_in \in CallerMetadata
    /\ pmeta = pmeta_in
    /\ part_idx = 0
    /\ qpc = "start"

SpecParams ==
    InitParams /\ [][ParamsNoLines \/ ParamsHead \/ ParamsPart \/ ParamsReturn]_vars

-----------------------------------------------------------------------------
(* tag_extractor.rs: TagExtractor::extract_from_prompt, one segment per action *)

\* char::to_lowercase of the letters the model writes: ASCII and Latin-1
\* capitals; every other character of the model's texts has no lowercase
to_lowercase(s) ==
    [i \in 1..Len(s) |->
        IF (s[i] >= 65 /\ s[i] <= 90) \/ (s[i] >= 192 /\ s[i] <= 222 /\ s[i] # 215)
        THEN s[i] + 32 ELSE s[i]]

\* str::len: the length of the UTF-8 encoding, in bytes
RECURSIVE str_len(_)
str_len(s) ==
    IF s = <<>> THEN 0
    ELSE (IF Head(s) < 128 THEN 1 ELSE IF Head(s) < 2048 THEN 2
          ELSE IF Head(s) < 65536 THEN 3 ELSE 4) + str_len(Tail(s))

\* TagExtractor::new (lines 10-18): the compiled patterns.  A pattern is its
\* alternatives, an alternative the literals that ".*" separates
TagExtractor ==
    [
      \* Lines 105-120
      style_patterns |->
      <<
        \* photorealistic|photo.*real
        << <<<<112, 104, 111, 116, 111, 114, 101, 97, 108, 105, 115, 116, 105, 99>>>>,
           <<<<112, 104, 111, 116, 111>>, <<114, 101, 97, 108>>>> >>,
        \* anime|manga
        << <<<<97, 110, 105, 109, 101>>>>,
           <<<<109, 97, 110, 103, 97>>>> >>,
        \* oil.*paint|oil painting
        << <<<<111, 105, 108>>, <<112, 97, 105, 110, 116>>>>,
           <<<<111, 105, 108, 32, 112, 97, 105, 110, 116, 105, 110, 103>>>> >>,
        \* watercolor|water.*color
        << <<<<119, 97, 116, 101, 114, 99, 111, 108, 111, 114>>>>,
           <<<<119, 97, 116, 101, 114>>, <<99, 111, 108, 111, 114>>>> >>,
        \* digital.*art|digital art
        << <<<<100, 105, 103, 105, 116, 97, 108>>, <<97, 114, 116>>>>,
           <<<<100, 105, 103, 105, 116, 97, 108, 32, 97, 114, 116>>>> >>,
        \* sketch|drawing
        << <<<<115, 107, 101, 116, 99, 104>>>>,
           <<<<100, 114, 97, 119, 105, 110, 103>>>> >>,
        \* 3d.*render|3d render
        << <<<<51, 100>>, <<114, 101, 110, 100, 101, 114>>>>,
           <<<<51, 100, 32, 114, 101, 110, 100, 101, 114>>>> >>,
        \* pixel.*art|pixel art
        << <<<<112, 105, 120, 101, 108>>, <<97, 114, 116>>>>,
           <<<<112, 105, 120, 101, 108, 32, 97, 114, 116>>>> >>,
        \* abstract
        << <<<<97, 98, 115, 116, 114, 97, 99, 116>>>> >>,
        \* impressionist|impressionism
        << <<<<105, 109, 112, 114, 101, 115, 115, 105, 111, 110, 105, 115, 116>>>>,
           <<<<105, 109, 112, 114, 101, 115, 115, 105, 111, 110, 105, 115, 109>>>> >>,
        \* surreal|surrealism
        << <<<<115, 117, 114, 114, 101, 97, 108>>>>,
           <<<<115, 117, 114, 114, 101, 97, 108, 105, 115, 109>>>> >>,
        \* minimalist|minimalism
        << <<<<109, 105, 110, 105, 109, 97, 108, 105, 115, 116>>>>,
           <<<<109, 105, 110, 105, 109, 97, 108, 105, 115, 109>>>> >>
      >>,
      \* Lines 122-132
      quality_patterns |->
      <<
        \* masterpiece|best.*quality
        << <<<<109, 97, 115, 116, 101, 114, 112, 105, 101, 99, 101>>>>,
           <<<<98, 101, 115, 116>>, <<113, 117, 97, 108, 105, 116, 121>>>> >>,
        \* ultra.*detail|ultra detailed
        << <<<<117, 108, 116, 114, 97>>, <<100, 101, 116, 97, 105, 108>>>>,
           <<<<117, 108, 116, 114, 97, 32, 100, 101, 116, 97, 105, 108, 101, 100>>>> >>,
        \* high.*detail|highly detailed
        << <<<<104, 105, 103, 104>>, <<100, 101, 116, 97, 105, 108>>>>,
           <<<<104, 105, 103, 104, 108, 121, 32, 100, 101, 116, 97, 105, 108, 101, 100>>>> >>,
        \* 8k|4k|2k
        << <<<<56, 107>>>>,
           <<<<52, 107>>>>,
           <<<<50, 107>>>> >>,
        \* professional|pro
        << <<<<112, 114, 111, 102, 101, 115, 115, 105, 111, 110, 97, 108>>>>,
           <<<<112, 114, 111>>>> >>,
        \* sharp.*focus|sharp focus
        << <<<<115, 104, 97, 114, 112>>, <<102, 111, 99, 117, 115>>>>,
           <<<<115, 104, 97, 114, 112, 32, 102, 111, 99, 117, 115>>>> >>,
        \* high.*resolution|high res
        << <<<<104, 105, 103, 104>>, <<114, 101, 115, 111, 108, 117, 116, 105, 111, 110>>>>,
           <<<<104, 105, 103, 104, 32, 114, 101, 115>>>> >>
      >>,
      \* Lines 134-147
      technique_patterns |->
      <<
        \* cinematic.*light|cinematic lighting
        << <<<<99, 105, 110, 101, 109, 97, 116, 105, 99>>, <<108, 105, 103, 104, 116>>>>,
           <<<<99, 105, 110, 101, 109, 97, 116, 105, 99, 32, 108, 105, 103, 104, 116, 105, 110, 103>>>> >>,
        \* depth.*of.*field|dof|bokeh
        << <<<<100, 101, 112, 116, 104>>, <<111, 102>>, <<102, 105, 101, 108, 100>>>>,
           <<<<100, 111, 102>>>>,
           <<<<98, 111, 107, 101, 104>>>> >>,
        \* soft.*light|soft lighting
        << <<<<115, 111, 102, 116>>, <<108, 105, 103, 104, 116>>>>,
           <<<<115, 111, 102, 116, 32, 108, 105, 103, 104, 116, 105, 110, 103>>>> >>,
        \* dramatic.*light|dramatic lighting
        << <<<<100, 114, 97, 109, 97, 116, 105, 99>>, <<108, 105, 103, 104, 116>>>>,
           <<<<100, 114, 97, 109, 97, 116, 105, 99, 32, 108, 105, 103, 104, 116, 105, 110, 103>>>> >>,
        \* golden.*hour|golden hour
        << <<<<103, 111, 108, 100, 101, 110>>, <<104, 111, 117, 114>>>>,
           <<<<103, 111, 108, 100, 101, 110, 32, 104, 111, 117, 114>>>> >>,
        \* blue.*hour|blue hour
        << <<<<98, 108, 117, 101>>, <<104, 111, 117, 114>>>>,
           <<<<98, 108, 117, 101, 32, 104, 111, 117, 114>>>> >>,
        \* hdr|high.*dynamic.*range
        << <<<<104, 100, 114>>>>,
           <<<<104, 105, 103, 104>>, <<100, 121, 110, 97, 109, 105, 99>>, <<114, 97, 110, 103, 101>>>> >>,
        \* wide.*angle|wide angle
        << <<<<119, 105, 100, 101>>, <<97, 110, 103, 108, 101>>>>,
           <<<<119, 105, 100, 101, 32, 97, 110, 103, 108, 101>>>> >>,
        \* macro|close.*up
        << <<<<109, 97, 99, 114, 111>>>>,
           <<<<99, 108, 111, 115, 101>>, <<117, 112>>>> >>,
        \* long.*exposure|long exposure
        << <<<<108, 111, 110, 103>>, <<101, 120, 112, 111, 115, 117, 114, 101>>>>,
           <<<<108, 111, 110, 103, 32, 101, 120, 112, 111, 115, 117, 114, 101>>>> >>
      >>
    ]

\* The literals of one alternative occur in text in this order, without
\* overlap ('.' matches no line end: text holds none)
RECURSIVE literals_in_order(_, _)
literals_in_order(text, literals) ==
    IF literals = <<>> THEN TRUE
    ELSE LET at == find(text, Head(literals))
         IN at # 0 /\ literals_in_order(
                          SubSeq(text, at + Len(Head(literals)), Len(text)), Tail(literals))

\* Regex::is_match, unanchored: some alternative matches within one line
is_match(pattern, text) ==
    LET ls == split(text, LF)
    IN \E a \in 1..Len(pattern) :
          \E l \in 1..Len(ls) : literals_in_order(ls[l], pattern[a])

any_match(patterns, text) == \E i \in 1..Len(patterns) : is_match(patterns[i], text)

\* Lines 92-103
looks_like_subject(text) ==
    LET common_subjects ==
          {
            \* portrait
            <<112, 111, 114, 116, 114, 97, 105, 116>>,
            \* landscape
            <<108, 97, 110, 100, 115, 99, 97, 112, 101>>,
            \* animal
            <<97, 110, 105, 109, 97, 108>>,
            \* nature
            <<110, 97, 116, 117, 114, 101>>,
            \* city
            <<99, 105, 116, 121>>,
            \* building
            <<98, 117, 105, 108, 100, 105, 110, 103>>,
            \* architecture
            <<97, 114, 99, 104, 105, 116, 101, 99, 116, 117, 114, 101>>,
            \* person
            <<112, 101, 114, 115, 111, 110>>,
            \* face
            <<102, 97, 99, 101>>,
            \* woman
            <<119, 111, 109, 97, 110>>,
            \* man
            <<109, 97, 110>>,
            \* child
            <<99, 104, 105, 108, 100>>,
            \* flower
            <<102, 108, 111, 119, 101, 114>>,
            \* tree
            <<116, 114, 101, 101>>,
            \* mountain
            <<109, 111, 117, 110, 116, 97, 105, 110>>,
            \* ocean
            <<111, 99, 101, 97, 110>>,
            \* sky
            <<115, 107, 121>>,
            \* sunset
            <<115, 117, 110, 115, 101, 116>>,
            \* sunrise
            <<115, 117, 110, 114, 105, 115, 101>>,
            \* forest
            <<102, 111, 114, 101, 115, 116>>,
            \* desert
            <<100, 101, 115, 101, 114, 116>>,
            \* beach
            <<98, 101, 97, 99, 104>>,
            \* river
            <<114, 105, 118, 101, 114>>,
            \* lake
            <<108, 97, 107, 101>>,
            \* bird
            <<98, 105, 114, 100>>,
            \* cat
            <<99, 97, 116>>,
            \* dog
            <<100, 111, 103>>,
            \* car
            <<99, 97, 114>>,
            \* house
            <<104, 111, 117, 115, 101>>,
            \* street
            <<115, 116, 114, 101, 101, 116>>,
            \* bridge
            <<98, 114, 105, 100, 103, 101>>,
            \* castle
            <<99, 97, 115, 116, 108, 101>>,
            \* tower
            <<116, 111, 119, 101, 114>>
          }
    IN \E subject \in common_subjects : contains(text, subject)

\* tags.push((name, type, confidence)), the confidence in hundredths
tag(name, type, confidence) == [name |-> name, type |-> type, confidence |-> confidence]

\* The category a segment is given when the subject test comes first
category_subject_first(tag_name) ==
    IF looks_like_subject(tag_name) /\ str_len(tag_name) > 2
    THEN <<tag(tag_name, "subject", 70)>>
    ELSE IF any_match(TagExtractor.style_patterns, tag_name) THEN <<tag(tag_name, "style", 80)>>
    ELSE IF any_match(TagExtractor.quality_patterns, tag_name) THEN <<tag(tag_name, "quality", 90)>>
    ELSE IF any_match(TagExtractor.technique_patterns, tag_name)
    THEN <<tag(tag_name, "technique", 85)>>
    ELSE <<>>

\* Lines 34-74 for a name not seen before: each block pushes at its first
\* matching pattern and marks the name seen, so the blocks after it push
\* nothing; the result is the one tag pushed, if any
category(tag_name) ==
    IF any_match(TagExtractor.style_patterns, tag_name) THEN <<tag(tag_name, "style", 80)>>
    ELSE IF any_match(TagExtractor.quality_patterns, tag_name) THEN <<tag(tag_name, "quality", 90)>>
    ELSE IF any_match(TagExtractor.technique_patterns, tag_name)
    THEN <<tag(tag_name, "technique", 85)>>
    ELSE IF looks_like_subject(tag_name) /\ str_len(tag_name) > 2
    THEN <<tag(tag_name, "subject", 70)>>
    ELSE <<>>

\* The negative loop body without the seen_tags test
negative_tag_unseen(tag_name, seen) ==
    IF str_len(tag_name) > 2 THEN <<tag(tag_name, "negative", 80)>> ELSE <<>>

\* Lines 82-85: what a segment of the negative prompt pushes
negative_tag(tag_name, seen) ==
    IF str_len(tag_name) > 2 /\ tag_name \notin seen
    THEN <<tag(tag_name, "negative", 80)>>
    ELSE <<>>

\* Lines 26-30
TagStart ==
    /\ tpc = "start"
    /\ tag_segments' = extract_segments(tag_prompt)
    /\ tags' = <<>>
    /\ seen_tags' = {}
    /\ tag_idx' = 0
    /\ tpc' = "positive"
    /\ UNCHANGED <<tag_prompt, tag_negative>>
    /\ UNCHANGED notTags

\* Lines 31-75, one turn of the loop
TagSegment ==
    /\ tpc = "positive"
    /\ tag_idx < Len(tag_segments)
    /\ LET tag_name == to_lowercase(tag_segments[tag_idx + 1])
           pushed == IF tag_name \in seen_tags THEN <<>> ELSE category(tag_name)
       IN /\ tags' = tags \o pushed
          /\ seen_tags' = seen_tags \cup {pushed[i].name : i \in 1..Len(pushed)}
    /\ tag_idx' = tag_idx + 1
    /\ UNCHANGED <<tag_prompt, tag_negative, tag_segments, tpc>>
    /\ UNCHANGED notTags

\* Line 78 with negative_prompt = None, then line 89
TagNoNegative ==
    /\ tpc = "positive"
    /\ tag_idx = Len(tag_segments)
    /\ IsNone(tag_negative)
    /\ tpc' = "returned"
    /\ UNCHANGED <<tag_prompt, tag_negative, tag_segments, tags, seen_tags, tag_idx>>
    /\ UNCHANGED notTags

\* Lines 78-79
TagEnterNegative ==
    /\ tpc = "positive"
    /\ tag_idx = Len(tag_segments)
    /\ IsSome(tag_negative)
    /\ tag_segments' = extract_segments(Unwrap(tag_negative))
    /\ tag_idx' = 0
    /\ tpc' = "negative"
    /\ UNCHANGED <<tag_prompt, tag_negative, tags, seen_tags>>
    /\ UNCHANGED notTags

\* Lines 80-86, one turn of the loop
TagNegativeSegment ==
    /\ tpc = "negative"
    /\ tag_idx < Len(tag_segments)
    /\ LET tag_name == to_lowercase(tag_segments[tag_idx + 1])
           pushed == negative_tag(tag_name, seen_tags)
       IN /\ tags' = tags \o pushed
          /\ seen_tags' = seen_tags \cup {pushed[i].name : i \in 1..Len(pushed)}
    /\ tag_idx' = tag_idx + 1
    /\ UNCHANGED <<tag_prompt, tag_negative, tag_segments, tpc>>
    /\ UNCHANGED notTags

\* Line 89
TagReturn ==
    /\ tpc = "negative"
    /\ tag_idx = Len(tag_segments)
    /\ tpc' = "returned"
    /\ UNCHANGED <<tag_prompt, tag_negative, tag_segments, tags, seen_tags, tag_idx>>
    /\ UNCHANGED notTags

\* The pieces the prompts are made of, and the strings of the tests (lines
\* 164, 177-178)
TagLit ==
    [
      \* "photorealistic"
      photorealistic |->
          <<112, 104, 111, 116, 111, 114, 101, 97, 108, 105, 115, 116, 105,
            99>>,
      \* " Photo  Real"
      photo_real |->
          <<32, 80, 104, 111, 116, 111, 32, 32, 82, 101, 97, 108>>,
      \* "8k"
      eight_k |->
          <<56, 107>>,
      \* "beautiful landscape"
      beautiful_landscape |->
          <<98, 101, 97, 117, 116, 105, 102, 117, 108, 32, 108, 97, 110, 100,
            115, 99, 97, 112, 101>>,
      \* "pro cat"
      pro_cat |->
          <<112, 114, 111, 32, 99, 97, 116>>,
      \* "Anime 4K macro city"
      all_four |->
          <<65, 110, 105, 109, 101, 32, 52, 75, 32, 109, 97, 99, 114, 111,
            32, 99, 105, 116, 121>>,
      \* "photo\nreal"
      photo_nl_real |->
          <<112, 104, 111, 116, 111, 10, 114, 101, 97, 108>>,
      \* "ox"
      ox |->
          <<111, 120>>,
      \* "blurry"
      blurry |->
          <<98, 108, 117, 114, 114, 121>>,
      \* "日本"
      kanji |->
          <<26085, 26412>>,
      \* "É"
      e_acute |->
          <<201>>,
      \* "beautiful landscape, photorealistic, mountains, 8k, highly detailed"
      test_prompt |->
          <<98, 101, 97, 117, 116, 105, 102, 117, 108, 32, 108, 97, 110, 100,
            115, 99, 97, 112, 101, 44, 32, 112, 104, 111, 116, 111, 114, 101,
            97, 108, 105, 115, 116, 105, 99, 44, 32, 109, 111, 117, 110, 116,
            97, 105, 110, 115, 44, 32, 56, 107, 44, 32, 104, 105, 103, 104,
            108, 121, 32, 100, 101, 116, 97, 105, 108, 101, 100>>,
      \* "blurry, low quality, deformed"
      test_negative |->
          <<98, 108, 117, 114, 114, 121, 44, 32, 108, 111, 119, 32, 113, 117,
            97, 108, 105, 116, 121, 44, 32, 100, 101, 102, 111, 114, 109,
            101, 100>>
    ]

\* The prompts are at most MaxTagSegments pieces between commas, or the prompt
\* of test_extract_style_tags; the negative prompts are none, or some with
\* short, repeated and already tagged segments
InitTags ==
    /\ IdleExcept("tags")
    /\ tag_prompt \in
          { join(ps, <<COMMA, SP>>) :
              ps \in BoundedSeq({ TagLit.photorealistic, TagLit.photo_real, TagLit.eight_k,
                                  TagLit.beautiful_landscape, TagLit.pro_cat,
                                  TagLit.all_four, TagLit.photo_nl_real, TagLit.ox },
                                MaxTagSegments) }
          \cup {TagLit.test_prompt}
    /\ tag_negative \in
          { None,
            Some(<<>>),
            Some(TagLit.test_negative),
            Some(join(<<TagLit.ox, TagLit.blurry, TagLit.kanji, TagLit.e_acute>>, <<COMMA>>)),
            Some(join(<<TagLit.blurry, TagLit.pro_cat, TagLit.blurry, TagLit.eight_k>>,
                      <<COMMA>>)) }
    /\ tag_segments = <<>>
    /\ tags = <<>>
    /\ seen_tags = {}
    /\ tag_idx = 0
    /\ tpc = "start"

SpecTags ==
    /\ InitTags
    /\ [][\/ TagStart \/ TagSegment \/ TagNoNegative
           \/ TagEnterNegative \/ TagNegativeSegment \/ TagReturn]_vars

-----------------------------------------------------------------------------
(* parser.rs: MetadataExtractor::extract, with the field mapping of
   extract_png_metadata (png.rs) and extract_webp_metadata (webp.rs) *)

\* Extensions, the chunk keys of the two field mappers, and chunk texts
ExtractLit ==
    [
      \* "png"
      png |-> <<112, 110, 103>>,
      \* "PNG"
      PNG |-> <<80, 78, 71>>,
      \* "jpg"
      jpg |-> <<106, 112, 103>>,
      \* "jpeg"
      jpeg |-> <<106, 112, 101, 103>>,
      \* "JPeG"
      JPeG |-> <<74, 80, 101, 71>>,
      \* "webp"
      webp |-> <<119, 101, 98, 112>>,
      \* "gif"
      gif |-> <<103, 105, 102>>,
      \* "negative_prompt"
      negative_prompt |-> <<110, 101, 103, 97, 116, 105, 118, 101, 95, 112, 114, 111, 109, 112, 116>>,
      \* "model"
      model |-> <<109, 111, 100, 101, 108>>,
      \* "seed"
      seed |-> <<115, 101, 101, 100>>,
      \* "steps"
      steps |-> <<115, 116, 101, 112, 115>>,
      \* "cfg_scale"
      cfg_scale |-> <<99, 102, 103, 95, 115, 99, 97, 108, 101>>,
      \* "CFG scale"
      CFG_scale |-> <<67, 70, 71, 32, 115, 99, 97, 108, 101>>,
      \* "sampler"
      sampler |-> <<115, 97, 109, 112, 108, 101, 114>>,
      \* "size"
      size |-> <<115, 105, 122, 101>>,
      \* "Comment"
      Comment |-> <<67, 111, 109, 109, 101, 110, 116>>,
      \* "{"
      brace |-> <<123>>,
      \* " old  text \r\n"
      untidy |-> <<32, 111, 108, 100, 32, 32, 116, 101, 120, 116, 32, 13, 10>>,
      \* "new"
      new |-> <<110, 101, 119>>
    ]

\* parser.rs lines 29-32
ExtractDetect ==
    /\ xpc = "start"
    /\ ext' = IF IsNone(path_extension) THEN <<>> ELSE to_lowercase(Unwrap(path_extension))
    /\ xpc' = "match"
    /\ UNCHANGED <<path_extension, file_readable, text_chunks, extracted,
                   has_comfyui_workflow, chunk_idx, outcome>>
    /\ UNCHANGED notExtract

\* The fallback arm if it read the file first
ExtractUnknownReading ==
    /\ xpc = "match"
    /\ ext \notin {ExtractLit.png, ExtractLit.jpg, ExtractLit.jpeg, ExtractLit.webp}
    /\ extracted' = IF file_readable THEN EmptyMetadata ELSE extracted
    /\ outcome' = IF file_readable THEN outcome ELSE "Err"
    /\ xpc' = IF file_readable THEN "normalize" ELSE "returned"
    /\ UNCHANGED <<path_extension, file_readable, text_chunks, ext,
                   has_comfyui_workflow, chunk_idx>>
    /\ UNCHANGED notExtract

\* parser.rs line 38: no file is read
ExtractUnknown ==
    /\ xpc = "match"
    /\ ext \notin {ExtractLit.png, ExtractLit.jpg, ExtractLit.jpeg, ExtractLit.webp}
    /\ extracted' = EmptyMetadata
    /\ xpc' = "normalize"
    /\ UNCHANGED <<path_extension, file_readable, text_chunks, ext,
                   has_comfyui_workflow, chunk_idx, outcome>>
    /\ UNCHANGED notExtract

\* parser.rs lines 35-37: the "?" on the Err of std::fs::read (png.rs line 9,
\* webp.rs line 9) or File::open (jpeg.rs line 10)
ExtractReadError ==
    /\ xpc = "match"
    /\ ext \in {ExtractLit.png, ExtractLit.jpg, ExtractLit.jpeg, ExtractLit.webp}
    /\ ~file_readable
    /\ outcome' = "Err"
    /\ xpc' = "returned"
    /\ UNCHANGED <<path_extension, file_readable, text_chunks, ext, extracted,
                   has_comfyui_workflow, chunk_idx>>
    /\ UNCHANGED notExtract

\* The mutant of ExtractPngFirstPass: there is no first pass.
ExtractPngFirstPassSkipped ==
    /\ xpc = "match"
    /\ ext = ExtractLit.png
    /\ file_readable
    /\ has_comfyui_workflow' = FALSE
    /\ extracted' = EmptyMetadata
    /\ chunk_idx' = 0
    /\ xpc' = "png_chunks"
    /\ UNCHANGED <<path_extension, file_readable, text_chunks, ext, outcome>>
    /\ UNCHANGED notExtract

\* png.rs lines 9-25: the first "parameters" chunk whose text begins with '{'
\* is applied as a workflow
ExtractPngFirstPass ==
    /\ xpc = "match"
    /\ ext = ExtractLit.png
    /\ file_readable
    /\ LET found == {i \in 1..Len(text_chunks) :
                        /\ text_chunks[i][1] = PngLit.parameters
                        /\ starts_with(trim_start(text_chunks[i][2].s), ExtractLit.brace)}
       IN IF found = {}
          THEN /\ has_comfyui_workflow' = FALSE
               /\ extracted' = EmptyMetadata
          ELSE LET value == text_chunks[CHOOSE i \in found : \A j \in found : i <= j][2]
               IN /\ has_comfyui_workflow' = TRUE
                  /\ extracted' = apply_comfyui_to_metadata(
                                      value.js, [EmptyMetadata EXCEPT !.parameters = Some(value.s)])
    /\ chunk_idx' = 0
    /\ xpc' = "png_chunks"
    /\ UNCHANGED <<path_extension, file_readable, text_chunks, ext, outcome>>
    /\ UNCHANGED notExtract

\* The mutant of ExtractPngChunk: a "prompt" chunk is stored whatever its text.
ExtractPngChunkVerbatim ==
    /\ xpc = "png_chunks"
    /\ chunk_idx < Len(text_chunks)
    /\ LET key == text_chunks[chunk_idx + 1][1]
           value == text_chunks[chunk_idx + 1][2]
           md == extracted
       IN extracted' =
            IF key = PngLit.parameters
            THEN IF ~has_comfyui_workflow
                 THEN parse_parameters_string(value.s, [md EXCEPT !.parameters = Some(value.s)])
                 ELSE md
            ELSE IF key = PngLit.prompt
            THEN IF IsNone(md.prompt)
                 THEN [md EXCEPT !.prompt = Some(value.s)]
                 ELSE md
            ELSE IF key = ExtractLit.negative_prompt
            THEN [md EXCEPT !.negative_prompt = Some(value.s)]
            ELSE IF key = ExtractLit.model THEN [md EXCEPT !.model = Some(value.s)]
            ELSE IF key = ExtractLit.seed THEN [md EXCEPT !.seed = Some(value.s)]
            ELSE IF key = ExtractLit.steps THEN [md EXCEPT !.steps = Some(value.s)]
            ELSE IF key \in {ExtractLit.cfg_scale, ExtractLit.CFG_scale}
            THEN [md EXCEPT !.cfg_scale = Some(value.s)]
            ELSE IF key = ExtractLit.sampler THEN [md EXCEPT !.sampler = Some(value.s)]
            ELSE IF key = ExtractLit.size THEN [md EXCEPT !.size = Some(value.s)]
            ELSE [md EXCEPT !.other = Append(@, <<key, value.s>>)]
    /\ chunk_idx' = chunk_idx + 1
    /\ UNCHANGED <<path_extension, file_readable, text_chunks, ext,
                   has_comfyui_workflow, outcome, xpc>>
    /\ UNCHANGED notExtract

\* png.rs lines 28-76, one turn of the loop
ExtractPngChunk ==
    /\ xpc = "png_chunks"
    /\ chunk_idx < Len(text_chunks)
    /\ LET key == text_chunks[chunk_idx + 1][1]
           value == text_chunks[chunk_idx + 1][2]
           md == extracted
       IN extracted' =
            IF key = PngLit.parameters
            THEN IF ~has_comfyui_workflow
                 THEN parse_parameters_string(value.s, [md EXCEPT !.parameters = Some(value.s)])
                 ELSE md
            ELSE IF key = PngLit.prompt
            THEN IF IsNone(md.prompt)
                 THEN IF starts_with(trim_start(value.s), ExtractLit.brace)
                      THEN apply_comfyui_to_metadata(value.js, md)
                      ELSE [md EXCEPT !.prompt = Some(value.s)]
                 ELSE md
            ELSE IF key = ExtractLit.negative_prompt
            THEN [md EXCEPT !.negative_prompt = Some(value.s)]
            ELSE IF key = ExtractLit.model THEN [md EXCEPT !.model = Some(value.s)]
            ELSE IF key = ExtractLit.seed THEN [md EXCEPT !.seed = Some(value.s)]
            ELSE IF key = ExtractLit.steps THEN [md EXCEPT !.steps = Some(value.s)]
            ELSE IF key \in {ExtractLit.cfg_scale, ExtractLit.CFG_scale}
            THEN [md EXCEPT !.cfg_scale = Some(value.s)]
            ELSE IF key = ExtractLit.sampler THEN [md EXCEPT !.sampler = Some(value.s)]
            ELSE IF key = ExtractLit.size THEN [md EXCEPT !.size = Some(value.s)]
            ELSE [md EXCEPT !.other = Append(@, <<key, value.s>>)]
    /\ chunk_idx' = chunk_idx + 1
    /\ UNCHANGED <<path_extension, file_readable, text_chunks, ext,
                   has_comfyui_workflow, outcome, xpc>>
    /\ UNCHANGED notExtract

\* webp.rs lines 9-12
ExtractWebpStart ==
    /\ xpc = "match"
    /\ ext = ExtractLit.webp
    /\ file_readable
    /\ extracted' = EmptyMetadata
    /\ chunk_idx' = 0
    /\ xpc' = "webp_chunks"
    /\ UNCHANGED <<path_extension, file_readable, text_chunks, ext,
                   has_comfyui_workflow, outcome>>
    /\ UNCHANGED notExtract

\* The mutant of webp_map: the synthetic "description" pair is taken as the prompt.
webp_map_description(md, key, value) ==
    IF key = WebpLit.key_description THEN [md EXCEPT !.prompt = Some(value.s)]
    ELSE [md EXCEPT !.other = Append(@, <<key, value.s>>)]

\* webp.rs lines 16-48: the match on the key of one pair
webp_map(md, key, value) ==
    IF key = PngLit.parameters
    THEN parse_parameters_string(value.s, [md EXCEPT !.parameters = Some(value.s)])
    ELSE IF key = PngLit.prompt THEN [md EXCEPT !.prompt = Some(value.s)]
    ELSE IF key = ExtractLit.negative_prompt
    THEN [md EXCEPT !.negative_prompt = Some(value.s)]
    ELSE IF key = ExtractLit.model THEN [md EXCEPT !.model = Some(value.s)]
    ELSE IF key = ExtractLit.seed THEN [md EXCEPT !.seed = Some(value.s)]
    ELSE IF key = ExtractLit.steps THEN [md EXCEPT !.steps = Some(value.s)]
    ELSE IF key \in {ExtractLit.cfg_scale, ExtractLit.CFG_scale}
    THEN [md EXCEPT !.cfg_scale = Some(value.s)]
    ELSE IF key = ExtractLit.sampler THEN [md EXCEPT !.sampler = Some(value.s)]
    ELSE IF key = ExtractLit.size THEN [md EXCEPT !.size = Some(value.s)]
    ELSE [md EXCEPT !.other = Append(@, <<key, value.s>>)]

\* webp.rs lines 15-50, one turn of the loop
ExtractWebpChunk ==
    /\ xpc = "webp_chunks"
    /\ chunk_idx < Len(text_chunks)
    /\ extracted' = webp_map(extracted, text_chunks[chunk_idx + 1][1],
                             text_chunks[chunk_idx + 1][2])
    /\ chunk_idx' = chunk_idx + 1
    /\ UNCHANGED <<path_extension, file_readable, text_chunks, ext,
                   has_comfyui_workflow, outcome, xpc>>
    /\ UNCHANGED notExtract

\* png.rs line 78, webp.rs line 52: Ok(metadata) reaches parser.rs line 34
ExtractMapped ==
    /\ xpc \in {"png_chunks", "webp_chunks"}
    /\ chunk_idx = Len(text_chunks)
    /\ xpc' = "normalize"
    /\ UNCHANGED <<path_extension, file_readable, text_chunks, ext, extracted,
                   has_comfyui_workflow, chunk_idx, outcome>>
    /\ UNCHANGED notExtract

\* parser.rs line 36 on a file that can be read: the record that
\* extract_jpeg_metadata returns holds what the EXIF reader (the exif crate,
\* not part of the repository) and the XMP scan find in the file; any prompt,
\* negative prompt, model and other pairs
ExtractJpeg ==
    /\ xpc = "match"
    /\ ext \in {ExtractLit.jpg, ExtractLit.jpeg}
    /\ file_readable
    /\ \E p, n, mo \in {None, Some(ExtractLit.untidy), Some(ExtractLit.new)} :
          extracted' = [EmptyMetadata EXCEPT !.prompt = p, !.negative_prompt = n, !.model = mo,
                                             !.other = IF IsSome(mo)
                                                       THEN << <<ExtractLit.Comment, Unwrap(mo)>> >>
                                                       ELSE <<>>]
    /\ xpc' = "normalize"
    /\ UNCHANGED <<path_extension, file_readable, text_chunks, ext,
                   has_comfyui_workflow, chunk_idx, outcome>>
    /\ UNCHANGED notExtract

\* The normalization step without its second half
ExtractNormalizePromptOnly ==
    /\ xpc = "normalize"
    /\ extracted' =
          [extracted EXCEPT !.prompt = IF IsSome(@) THEN Some(normalize(Unwrap(@))) ELSE @]
    /\ outcome' = "Ok"
    /\ xpc' = "returned"
    /\ UNCHANGED <<path_extension, file_readable, text_chunks, ext,
                   has_comfyui_workflow, chunk_idx>>
    /\ UNCHANGED notExtract

\* parser.rs lines 41-50
ExtractNormalize ==
    /\ xpc = "normalize"
    /\ extracted' =
          [extracted EXCEPT
              !.prompt = IF IsSome(@) THEN Some(normalize(Unwrap(@))) ELSE @,
              !.negative_prompt = IF IsSome(@) THEN Some(normalize(Unwrap(@))) ELSE @]
    /\ outcome' = "Ok"
    /\ xpc' = "returned"
    /\ UNCHANGED <<path_extension, file_readable, text_chunks, ext,
                   has_comfyui_workflow, chunk_idx>>
    /\ UNCHANGED notExtract

\* A path with or without an extension, a file that can or cannot be read, and
\* what the chunk reader finds in it.  A chunk text is s, and js is what
\* serde_json makes of it; of a text that spells a JSON object s is the first
\* character.  A WebP file yields only the keys of parse_webp_chunks
InitExtract ==
    /\ IdleExcept("extract")
    /\ path_extension \in
          {None} \cup {Some(e) : e \in {<<>>, ExtractLit.png, ExtractLit.PNG, ExtractLit.jpg,
                                        ExtractLit.JPeG, ExtractLit.webp, ExtractLit.gif}}
    /\ file_readable \in BOOLEAN
    /\ LET text(s) == [s |-> s, js |-> [ok |-> FALSE, tree |-> JNull]]
           json(ok, tree) == [s |-> ExtractLit.brace, js |-> [ok |-> ok, tree |-> tree]]
           graph == Graph(<<Nodes.Node65, Nodes.Node35, Nodes.Node21>>)
           keywords == {ExtractLit.negative_prompt, ExtractLit.model, ExtractLit.seed,
                        ExtractLit.steps, ExtractLit.cfg_scale, ExtractLit.CFG_scale,
                        ExtractLit.sampler, ExtractLit.size, ExtractLit.Comment}
           png_pairs ==
               {<<PngLit.parameters, v>> :
                   v \in {json(TRUE, graph), json(FALSE, graph), text(ParamsExample)}}
               \cup {<<PngLit.prompt, v>> :
                        v \in {json(TRUE, Graph(<<Nodes.NodeText>>)), text(ExtractLit.untidy),
                               \* " {...}": a workflow of a sampler alone
                               [s |-> <<SP>> \o ExtractLit.brace,
                                js |-> [ok |-> TRUE, tree |-> Graph(<<Nodes.Node21>>)]]}}
               \cup {<<k, text(ExtractLit.untidy)>> : k \in keywords}
               \cup {<<k, text(ExtractLit.new)>> :
                        k \in {ExtractLit.model, ExtractLit.negative_prompt}}
           webp_pairs ==
               {<<k, text(v)>> :
                   k \in {WebpLit.key_EXIF, WebpLit.key_XMP, WebpLit.key_description},
                   v \in {ExtractLit.untidy, ExtractLit.new}}
       IN text_chunks \in
             IF IsSome(path_extension) /\ to_lowercase(Unwrap(path_extension)) = ExtractLit.png
             THEN BoundedSeq(png_pairs, MaxTextChunks)
             ELSE IF path_extension = Some(ExtractLit.webp)
             THEN BoundedSeq(webp_pairs, MaxTextChunks)
             ELSE {<<>>}
    /\ ext = <<>>
    /\ extracted = <<>>
    /\ has_comfyui_workflow = FALSE
    /\ chunk_idx = 0
    /\ outcome = "none"
    /\ xpc = "start"

SpecExtract ==
    /\ InitExtract
    /\ [][\/ ExtractDetect \/ ExtractUnknown \/ ExtractReadError
           \/ ExtractPngFirstPass \/ ExtractPngChunk \/ ExtractWebpStart
           \/ ExtractWebpChunk \/ ExtractMapped \/ ExtractJpeg
           \/ ExtractNormalize]_vars

-----------------------------------------------------------------------------
(* The normalizer's calls *)

InitNorm ==
    /\ IdleExcept("norm")
    \* 'a', the blanks and line ends, ',' and U+3000 (whitespace, not control)
    /\ prompt \in BoundedSeq({97, SP, TAB, LF, CR, COMMA, 12288}, MaxPromptLen)
    /\ normalized = <<>>
    /\ renormalized = <<>>
    /\ cleaned = <<>>
    /\ segments = <<>>
    /\ npc = "start"

Normalize ==
    /\ npc = "start"
    /\ normalized' = normalize(prompt)
    /\ npc' = "normalized"
    /\ UNCHANGED <<prompt, renormalized, cleaned, segments>>
    /\ UNCHANGED notNorm

Renormalize ==
    /\ npc = "normalized"
    /\ renormalized' = normalize(normalized)
    /\ npc' = "renormalized"
    /\ UNCHANGED <<prompt, normalized, cleaned, segments>>
    /\ UNCHANGED notNorm

ExtractSegments ==
    /\ npc = "start"
    /\ segments' = extract_segments(prompt)
    /\ npc' = "segmented"
    /\ UNCHANGED <<prompt, normalized, renormalized, cleaned>>
    /\ UNCHANGED notNorm

Clean ==
    /\ npc = "start"
    /\ cleaned' = clean(prompt)
    /\ npc' = "cleaned"
    /\ UNCHANGED <<prompt, normalized, renormalized, segments>>
    /\ UNCHANGED notNorm

SpecNorm ==
    InitNorm /\ [][Normalize \/ Renormalize \/ ExtractSegments \/ Clean]_vars

-----------------------------------------------------------------------------
(* jpeg.rs: extract_jpeg_metadata, one EXIF field per action *)

\* The strings of jpeg.rs and of the files it reads
JpegLit ==
    [
      \* "ImageDescription"
      ImageDescription |-> <<73, 109, 97, 103, 101, 68, 101, 115, 99, 114,
          105, 112, 116, 105, 111, 110>>,
      \* "UserComment"
      UserComment |-> <<85, 115, 101, 114, 67, 111, 109, 109, 101, 110, 116>>,
      \* "Artist"
      Artist |-> <<65, 114, 116, 105, 115, 116>>,
      \* "Software"
      Software |-> <<83, 111, 102, 116, 119, 97, 114, 101>>,
      \* "DateTime"
      DateTime |-> <<68, 97, 116, 101, 84, 105, 109, 101>>,
      \* "http://ns.adobe.com/xap/1.0/\0"
      xmp_header |-> <<104, 116, 116, 112, 58, 47, 47, 110, 115, 46, 97, 100,
          111, 98, 101, 46, 99, 111, 109, 47, 120, 97, 112, 47, 49, 46, 48,
          47, 0>>,
      \* "<dc:description>"
      dc_open |-> <<60, 100, 99, 58, 100, 101, 115, 99, 114, 105, 112, 116,
          105, 111, 110, 62>>,
      \* "</dc:description>"
      dc_close |-> <<60, 47, 100, 99, 58, 100, 101, 115, 99, 114, 105, 112,
          116, 105, 111, 110, 62>>,
      \* "<xmp:Description>"
      xmp_open |-> <<60, 120, 109, 112, 58, 68, 101, 115, 99, 114, 105, 112,
          116, 105, 111, 110, 62>>,
      \* "</xmp:Description>"
      xmp_close |-> <<60, 47, 120, 109, 112, 58, 68, 101, 115, 99, 114, 105,
          112, 116, 105, 111, 110, 62>>,
      \* "rdf:Description"
      rdf |-> <<114, 100, 102, 58, 68, 101, 115, 99, 114, 105, 112, 116, 105,
          111, 110>>,
      \* "dc:description=""
      attr_open |-> <<100, 99, 58, 100, 101, 115, 99, 114, 105, 112, 116, 105,
          111, 110, 61, 34>>,
      \* "Steps:"
      steps |-> <<83, 116, 101, 112, 115, 58>>,
      \* "CFG scale:"
      cfg_scale |-> <<67, 70, 71, 32, 115, 99, 97, 108, 101, 58>>,
      \* "Seed:"
      seed |-> <<83, 101, 101, 100, 58>>,
      \* "Negative prompt:"
      negative |-> <<78, 101, 103, 97, 116, 105, 118, 101, 32, 112, 114, 111,
          109, 112, 116, 58>>,
      \* the displayed value "a dog", quotes included
      quoted_dog |-> <<34, 97, 32, 100, 111, 103, 34>>,
      \* "a dog"
      dog |-> <<97, 32, 100, 111, 103>>,
      \* the displayed value of an empty string
      quoted_empty |-> <<34, 34>>,
      \* "m1"
      m1 |-> <<109, 49>>,
      \* "2024"
      date |-> <<50, 48, 50, 52>>,
      \* "just words"
      comment_plain |-> <<106, 117, 115, 116, 32, 119, 111, 114, 100, 115>>,
      \* "a cat\nNegative prompt: bad"
      comment_negative |-> <<97, 32, 99, 97, 116, 10, 78, 101, 103, 97, 116,
          105, 118, 101, 32, 112, 114, 111, 109, 112, 116, 58, 32, 98, 97, 100>>,
      \* "a cat"
      cat |-> <<97, 32, 99, 97, 116>>,
      \* "bad"
      bad |-> <<98, 97, 100>>,
      \* the text of the test (lines 182-184)
      comment_test |-> <<98, 101, 97, 117, 116, 105, 102, 117, 108, 32, 108,
          97, 110, 100, 115, 99, 97, 112, 101, 10, 78, 101, 103, 97, 116, 105,
          118, 101, 32, 112, 114, 111, 109, 112, 116, 58, 32, 98, 108, 117,
          114, 114, 121, 10, 83, 116, 101, 112, 115, 58, 32, 50, 48, 44, 32,
          83, 101, 101, 100, 58, 32, 49, 50, 51, 52, 53>>,
      \* "beautiful landscape"
      landscape |-> <<98, 101, 97, 117, 116, 105, 102, 117, 108, 32, 108, 97,
          110, 100, 115, 99, 97, 112, 101>>,
      \* "<dc:description> hi </dc:description>"
      xml_element |-> <<60, 100, 99, 58, 100, 101, 115, 99, 114, 105, 112,
          116, 105, 111, 110, 62, 32, 104, 105, 32, 60, 47, 100, 99, 58, 100,
          101, 115, 99, 114, 105, 112, 116, 105, 111, 110, 62>>,
      \* "<xmp:Description>xd</xmp:Description>"
      xml_xmp |-> <<60, 120, 109, 112, 58, 68, 101, 115, 99, 114, 105, 112,
          116, 105, 111, 110, 62, 120, 100, 60, 47, 120, 109, 112, 58, 68,
          101, 115, 99, 114, 105, 112, 116, 105, 111, 110, 62>>,
      \* "<rdf:Description dc:description="yo"/>"
      xml_attribute |-> <<60, 114, 100, 102, 58, 68, 101, 115, 99, 114, 105,
          112, 116, 105, 111, 110, 32, 100, 99, 58, 100, 101, 115, 99, 114,
          105, 112, 116, 105, 111, 110, 61, 34, 121, 111, 34, 47, 62>>,
      \* "<rdf:Description dc:description="yo"><dc:description>hi</dc:description></rdf:Description>"
      xml_both |-> <<60, 114, 100, 102, 58, 68, 101, 115, 99, 114, 105, 112,
          116, 105, 111, 110, 32, 100, 99, 58, 100, 101, 115, 99, 114, 105,
          112, 116, 105, 111, 110, 61, 34, 121, 111, 34, 62, 60, 100, 99, 58,
          100, 101, 115, 99, 114, 105, 112, 116, 105, 111, 110, 62, 104, 105,
          60, 47, 100, 99, 58, 100, 101, 115, 99, 114, 105, 112, 116, 105,
          111, 110, 62, 60, 47, 114, 100, 102, 58, 68, 101, 115, 99, 114, 105,
          112, 116, 105, 111, 110, 62>>,
      \* "hi"
      hi |-> <<104, 105>>,
      \* "xd"
      xd |-> <<120, 100>>,
      \* "yo"
      yo |-> <<121, 111>>
    ]

\* Lines 152-174: a text with one of the labels "Steps:", "CFG scale:",
\* "Seed:" goes to parse_parameters_string; otherwise a text with "Negative
\* prompt:" gives the prompt (first line, written without a test) and the
\* negative prompt; any other text changes nothing
parse_potential_parameters(text, md) ==
    LET RECURSIVE negative(_, _)
        negative(m, ls) ==
            IF ls = <<>> THEN m
            ELSE LET line == trim(Head(ls))
                     neg_prompt == IF IsSome(strip_prefix(line, JpegLit.negative))
                                   THEN trim(Unwrap(strip_prefix(line, JpegLit.negative)))
                                   ELSE <<>>
                 IN negative(IF starts_with(line, JpegLit.negative) /\ neg_prompt # <<>>
                             THEN [m EXCEPT !.negative_prompt = Some(neg_prompt)]
                             ELSE m,
                             Tail(ls))
    IN IF \/ contains(text, JpegLit.steps)
          \/ contains(text, JpegLit.cfg_scale)
          \/ contains(text, JpegLit.seed)
       THEN parse_parameters_string(text, md)
       ELSE IF contains(text, JpegLit.negative)
       THEN negative(IF lines(text) # <<>>
                     THEN [md EXCEPT !.prompt = Some(trim(lines(text)[1]))]
                     ELSE md,
                     lines(text))
       ELSE md

\* Lines 23-67, one turn of the loop over exif.fields(): the displayed value
\* loses a pair of surrounding quotes, an empty value is skipped, and the tag
\* selects what is written
JpegField ==
    /\ jpc = "fields"
    /\ field_idx < Len(exif_fields)
    /\ LET tag_str == exif_fields[field_idx + 1][1]
           value_str == exif_fields[field_idx + 1][2]
           unquoted == IF IsSome(strip_prefix(value_str, <<QUOTE>>))
                       THEN Unwrap(strip_prefix(value_str, <<QUOTE>>))
                       ELSE <<>>
           value == IF /\ IsSome(strip_prefix(value_str, <<QUOTE>>))
                       /\ unquoted # <<>>
                       /\ unquoted[Len(unquoted)] = QUOTE
                    THEN SubSeq(unquoted, 1, Len(unquoted) - 1)
                    ELSE value_str
           noted(m) == [m EXCEPT !.other = Append(@, <<tag_str, value>>)]
       IN jmeta' =
            IF value = <<>> THEN jmeta
            ELSE IF tag_str = JpegLit.ImageDescription
            THEN noted(IF IsNone(jmeta.prompt)
                       THEN [jmeta EXCEPT !.prompt = Some(value)] ELSE jmeta)
            ELSE IF tag_str = JpegLit.UserComment
            THEN noted(parse_potential_parameters(value, jmeta))
            ELSE IF tag_str = JpegLit.Software
            THEN noted(IF IsNone(jmeta.model)
                       THEN [jmeta EXCEPT !.model = Some(value)] ELSE jmeta)
            ELSE noted(jmeta)
    /\ field_idx' = field_idx + 1
    /\ UNCHANGED <<exif_fields, buf, jpc>>
    /\ UNCHANGED notJpeg

\* Lines 107-149: the <dc:description> element, the <xmp:Description>
\* element and the dc:description attribute of rdf:Description, each taken
\* as the prompt when it is not empty and no prompt is set
parse_xmp_xml(xml, md) ==
    LET set(m, desc) ==
            IF desc # <<>> /\ IsNone(m.prompt) THEN [m EXCEPT !.prompt = Some(desc)] ELSE m
        \* lines 112-121
        dc_start == find(xml, JpegLit.dc_open) - 1
        dc_end == find(From(xml, dc_start), JpegLit.dc_close) - 1
        m1 == IF find(xml, JpegLit.dc_open) = 0 THEN md
              ELSE IF find(From(xml, dc_start), JpegLit.dc_close) = 0 THEN md
              ELSE set(md, trim(Slice(xml, dc_start + 16, dc_start + dc_end)))
        \* lines 124-133
        xmp_start == find(xml, JpegLit.xmp_open) - 1
        xmp_end == find(From(xml, xmp_start), JpegLit.xmp_close) - 1
        m2 == IF find(xml, JpegLit.xmp_open) = 0 THEN m1
              ELSE IF find(From(xml, xmp_start), JpegLit.xmp_close) = 0 THEN m1
              ELSE set(m1, trim(Slice(xml, xmp_start + 17, xmp_start + xmp_end)))
        \* lines 136-146
        desc_start == find(xml, JpegLit.rdf) - 1
        desc_attr == find(From(xml, desc_start), JpegLit.attr_open) - 1
        attr_start == desc_start + desc_attr + 15
        attr_end == find(From(xml, attr_start), <<QUOTE>>) - 1
    IN IF find(xml, JpegLit.rdf) = 0 THEN m2
       ELSE IF find(From(xml, desc_start), JpegLit.attr_open) = 0 THEN m2
       ELSE IF find(From(xml, attr_start), <<QUOTE>>) = 0 THEN m2
       ELSE set(m2, Slice(xml, attr_start, attr_start + attr_end))

\* Line 77 with extract_xmp_from_jpeg (lines 83-104): after the fields,
\* the bytes after the first XMP header, if there are any and they are UTF-8,
\* go to parse_xmp_xml, and the record is returned
JpegXmp ==
    /\ jpc = "fields"
    /\ field_idx = Len(exif_fields)
    /\ LET i == find(buf, JpegLit.xmp_header) - 1
           xmp_start == i + Len(JpegLit.xmp_header)
           xml_str == from_utf8(From(buf, xmp_start))
       IN jmeta' =
            IF find(buf, JpegLit.xmp_header) = 0 THEN jmeta
            ELSE IF ~(xmp_start < Len(buf)) THEN jmeta
            ELSE IF IsSome(xml_str) THEN parse_xmp_xml(Unwrap(xml_str), jmeta)
            ELSE jmeta
    /\ jpc' = "returned"
    /\ UNCHANGED <<exif_fields, buf, field_idx>>
    /\ UNCHANGED notJpeg

\* A file the exif crate reads at most MaxExifFields fields from (none when
\* it finds no EXIF data), with or without an XMP header and what follows it
InitJpeg ==
    /\ IdleExcept("jpeg")
    /\ exif_fields \in
          BoundedSeq({ <<JpegLit.ImageDescription, JpegLit.quoted_dog>>,
                       <<JpegLit.UserComment, JpegLit.comment_plain>>,
                       <<JpegLit.UserComment, JpegLit.comment_negative>>,
                       <<JpegLit.UserComment, JpegLit.comment_test>>,
                       <<JpegLit.Software, JpegLit.m1>>,
                       <<JpegLit.Artist, JpegLit.quoted_empty>>,
                       <<JpegLit.DateTime, JpegLit.date>> }, MaxExifFields)
    /\ buf \in
          {<<255, 216>>, <<255, 216>> \o JpegLit.xmp_header}
          \cup {<<255, 216>> \o JpegLit.xmp_header \o tail :
                   tail \in {<<255, 254>>, JpegLit.xml_element, JpegLit.xml_xmp,
                             JpegLit.xml_attribute, JpegLit.xml_both}}
    /\ jmeta = EmptyMetadata
    /\ field_idx = 0
    /\ jpc = "fields"

SpecJpeg == InitJpeg /\ [][JpegField \/ JpegXmp]_vars

-----------------------------------------------------------------------------
(* Claims about the normalizer and the chunk readers *)

\* C1: normalize is idempotent: normalizing an already normalized prompt
\* returns it unchanged, for every input string.
C1_NormalizeIdempotent == npc = "renormalized" => renormalized = normalized

\* C1 witness: an input that normalize changes (blank lines collapsed, lines
\* trimmed) has been normalized twice.
C1_Witness ==
    /\ npc = "renormalized"
    /\ normalized # prompt
    /\ normalized # <<>>
    /\ contains(normalized, <<LF>>)

CommaTight(s) ==
    \A i \in 1..Len(split(s, COMMA)) :
        LET piece == split(s, COMMA)[i]
        IN piece # <<>> /\ trim(piece) = piece

C2_WitnessTight ==
    /\ npc = "segmented"
    /\ Len(segments) >= 2
    /\ prompt # normalize(prompt)
    /\ join(segments, <<COMMA>>) = normalize(prompt)

\* The ways parse_png_text_chunks returns
PngDone == ppc \in {"end_of_data", "short_header", "iend", "overrun"}

\* What a reader of the file as written should see: chunk i of png_file lies
\* whole in data (header, declared payload and CRC)
PngWhole(i) == PngChunkStart(png_file, i) + 12 + png_file[i].length <= Len(data)

\* The first chunk that is IEND or does not lie whole in data; one past the
\* last chunk if there is none
PngStopIndex ==
    LET stops == {i \in 1..Len(png_file) : png_file[i].type = PngLit.IEND \/ ~PngWhole(i)}
    IN IF stops = {} THEN Len(png_file) + 1
       ELSE CHOOSE i \in stops : \A j \in stops : i <= j

\* The (keyword, text) pairs of the tEXt chunks among the first n chunks, in
\* file order; those with an empty text are listed only if withEmpty
RECURSIVE PngPairsOf(_, _, _)
PngPairsOf(f, n, withEmpty) ==
    IF n = 0 THEN <<>>
    ELSE PngPairsOf(f, n - 1, withEmpty) \o
         (IF f[n].type = PngLit.tEXt /\ f[n].nul /\ (withEmpty \/ f[n].text # <<>>)
          THEN << <<from_utf8_lossy(f[n].keyword), from_utf8_lossy(f[n].text)>> >>
          ELSE <<>>)

\* The file is not cut off: the reader stopped at IEND or at the end of data
PngUncut == ppc \in {"iend", "end_of_data"}

\* C3 as stated: the reader returns the (keyword, text) pairs of the tEXt
\* chunks before IEND, all of them, in file order.
C3_AllTextPairsInFileOrder ==
    PngUncut => chunks = PngPairsOf(png_file, PngStopIndex - 1, TRUE)

\* C3 amended: the reader returns, in file order, the (keyword, text) pairs of
\* the tEXt chunks before IEND whose text is not empty; a tEXt chunk with an
\* empty text yields no pair.
C3_NonEmptyTextPairsInFileOrder ==
    PngUncut => chunks = PngPairsOf(png_file, PngStopIndex - 1, FALSE)

\* C3 witness: ("parameters", "X") then ("prompt", "Y") were read, in that
\* order, from a file that ends with IEND.
C3_Witness ==
    /\ ppc = "iend"
    /\ chunks = << <<PngLit.parameters, <<88>> >>, <<PngLit.prompt, <<89>> >> >>

\* C4: the reader stops at the first chunk that is IEND or that does not fit
\* in the buffer, returns (it has no error exit) and returns exactly the pairs
\* decoded from the chunks before that chunk.
C4_StopsAtIendOrOverrun ==
    PngDone =>
        /\ chunks = PngPairsOf(png_file, PngStopIndex - 1, FALSE)
        /\ ppc = "iend" =>
            /\ PngStopIndex <= Len(png_file)
            /\ png_file[PngStopIndex].type = PngLit.IEND
        /\ ppc \in {"overrun", "short_header"} =>
            /\ PngStopIndex <= Len(png_file)
            /\ ~PngWhole(PngStopIndex)
        /\ ppc = "end_of_data" => PngStopIndex = Len(png_file) + 1

\* C4 witness: the reader stopped at a chunk whose declared length overruns
\* the buffer, after a pair, with a tEXt chunk at the stopping point.
C4_Witness ==
    /\ ppc = "overrun"
    /\ Len(chunks) = 1
    /\ png_file[PngStopIndex].type = PngLit.tEXt
    /\ png_file[PngStopIndex].text # <<>>

\* C4 witness at IEND: a tEXt chunk after IEND yields no pair.
C4_WitnessIend ==
    /\ ppc = "iend"
    /\ PngStopIndex < Len(png_file)
    /\ png_file[Len(png_file)].type = PngLit.tEXt
    /\ png_file[Len(png_file)].text # <<>>
    /\ Len(chunks) = 1

\* The returns of parse_webp_chunks before its loop
WebpRejected == wpc \in {"too_short", "not_riff", "not_webp"}

\* C5: a buffer shorter than 12 bytes, or not starting with "RIFF", or
\* without "WEBP" at bytes 8..12, yields an empty chunk list; the reader
\* returns (it has no error exit).
C5_BadHeaderYieldsNothing ==
    (/\ wpc # "start"
     /\ \/ Len(wdata) < 12
        \/ Slice(wdata, 0, 4) # WebpLit.RIFF
        \/ Slice(wdata, 8, 12) # WebpLit.WEBP)
    => WebpRejected /\ wchunks = <<>>

\* C5 witness: a file with a wrong form type that holds a whole EXIF chunk
\* has been rejected.
C5_Witness ==
    /\ wpc = "not_webp"
    /\ webp_file.chunks # <<>>
    /\ webp_file.chunks[1] = WebpChunkOf(WebpLit.EXIF, <<101, 120>>)
    /\ Len(wdata) >= 12 + 8 + 2

\* C5 witness of the other two cases: a short buffer and a wrong magic.
C5_WitnessShort == wpc = "too_short" /\ Len(wdata) = 11 /\ Slice(wdata, 0, 4) = WebpLit.RIFF
C5_WitnessNotRiff == wpc = "not_riff" /\ Slice(wdata, 8, 12) = WebpLit.WEBP /\ webp_file.chunks # <<>>

-----------------------------------------------------------------------------
(* Claims about parse_comfyui_workflow and apply_comfyui_to_metadata *)

\* The node values of the top-level object visited so far, in traversal order
Visited ==
    IF json_str.tree.t = "object"
    THEN [i \in 1..node_idx |-> json_str.tree.kv[i][2]]
    ELSE <<>>

\* The first and the last Some of a sequence of options
FirstSome(os) ==
    LET hits == {i \in 1..Len(os) : IsSome(os[i])}
    IN IF hits = {} THEN None ELSE os[CHOOSE i \in hits : \A j \in hits : i <= j]

LastSome(os) ==
    LET hits == {i \in 1..Len(os) : IsSome(os[i])}
    IN IF hits = {} THEN None ELSE os[CHOOSE i \in hits : \A j \in hits : j <= i]

\* A node's class_type, <<>> if the entry is no object or has none
ClassOf(v) ==
    IF v.t = "object" /\ IsSome(and_then_as_str(get(v, "class_type")))
    THEN Unwrap(and_then_as_str(get(v, "class_type")))
    ELSE <<>>

InPromptRow(v) ==
    contains(ClassOf(v), ComfyLit.Wildcard) \/ contains(ClassOf(v), ComfyLit.Text) \/ contains(ClassOf(v), ComfyLit.Prompt)
InLoaderRow(v) == contains(ClassOf(v), ComfyLit.Loader) \/ contains(ClassOf(v), ComfyLit.Checkpoint)
InSamplerRow(v) == contains(ClassOf(v), ComfyLit.Sampler)
InLatentRow(v) == contains(ClassOf(v), ComfyLit.Latent) \/ contains(ClassOf(v), ComfyLit.Empty)

\* The input of a node read as a string, an unsigned integer or a number
StrInput(v, key) == and_then_as_str(node_input(v, key))
NonEmptyStrInput(v, key) ==
    IF IsSome(StrInput(v, key)) /\ Unwrap(StrInput(v, key)) # <<>>
    THEN StrInput(v, key) ELSE None
UintInput(v, key) ==
    IF IsSome(and_then_as_u64(node_input(v, key)))
    THEN Some(u64_to_string(Unwrap(and_then_as_u64(node_input(v, key)))))
    ELSE None
NumInput(v, key) ==
    IF IsSome(and_then_as_f64(node_input(v, key)))
    THEN Some(f64_to_string(Unwrap(and_then_as_f64(node_input(v, key)))))
    ELSE None

\* What one node supplies for each field of the workflow record (None if it
\* is not routed to the field's row or does not carry a value of the type the
\* field reads)
Supplies(v) ==
    LET prompt_row == InPromptRow(v)
        loader_row == InLoaderRow(v)
        sampler_row == InSamplerRow(v)
        latent_row == InLatentRow(v)
    IN [readable_prompt |->
           IF ~prompt_row THEN None
           ELSE IF IsSome(NonEmptyStrInput(v, "populated_text"))
           THEN NonEmptyStrInput(v, "populated_text")
           ELSE NonEmptyStrInput(v, "wildcard_text"),
        model |-> IF loader_row THEN StrInput(v, "ckpt_name") ELSE None,
        negative_prompt |-> IF loader_row THEN NonEmptyStrInput(v, "negative") ELSE None,
        lora |-> IF loader_row THEN StrInput(v, "lora_name") ELSE None,
        steps |-> IF sampler_row THEN UintInput(v, "steps") ELSE None,
        cfg_scale |-> IF sampler_row THEN NumInput(v, "cfg") ELSE None,
        sampler |-> IF sampler_row THEN StrInput(v, "sampler_name") ELSE None,
        seed |-> IF sampler_row THEN UintInput(v, "seed") ELSE None,
        width |-> IF latent_row THEN UintInput(v, "width") ELSE None,
        height |-> IF latent_row THEN UintInput(v, "height") ELSE None]

\* The entries the graphs are made of
GraphEntries ==
    LET objects == {t \in SmallTrees : t.t = "object"}
    IN NodePool \cup UNION {{t.kv[i][2] : i \in 1..Len(t.kv)} : t \in objects}

\* Supplies and the rows, tabulated once for these entries
SuppliesOf == [v \in GraphEntries |-> Supplies(v)]
RowsOf ==
    [v \in GraphEntries |->
        [prompt |-> InPromptRow(v), loader |-> InLoaderRow(v),
         sampler |-> InSamplerRow(v), latent |-> InLatentRow(v)]]

SuppliedSoFar(f) == [i \in 1..Len(Visited) |-> SuppliesOf[Visited[i]][f]]

FirstWinsFields == {"readable_prompt", "model", "negative_prompt", "lora"}
LastWinsFields == {"steps", "cfg_scale", "sampler", "seed", "width", "height"}

\* C6: readable_prompt, model, negative_prompt and lora each hold the value
\* of the first node in traversal order that supplies one (a non-empty
\* populated_text, else a non-empty wildcard_text, of a Wildcard/Text/Prompt
\* node; ckpt_name, a non-empty negative, lora_name of a Loader/Checkpoint
\* node), independently per field; no later node replaces it.
C6_FirstMatchWins ==
    cpc \in {"nodes", "parsed"} =>
        \A f \in FirstWinsFields : workflow[f] = FirstSome(SuppliedSoFar(f))

\* C6 witness: two nodes supplied a prompt and two a model, a negative prompt
\* and a lora, and the fields hold the first ones although the first loader
\* node supplied only the lora.
C6_Witness ==
    /\ cpc = "parsed"
    /\ Visited = <<Nodes.NodeLora, Nodes.NodeBoth, Nodes.NodeCkpt>> \/ Visited = <<Nodes.NodeBoth, Nodes.Node65, Nodes.NodeCkpt>>
    /\ workflow.readable_prompt = Some(<<99, 97, 116>>)

\* C6 witness, per field: the lora is the first loader node's, the model and
\* the negative prompt are the second's, which is the first to supply them.
C6_WitnessPerField ==
    /\ cpc = "parsed"
    /\ Visited = <<Nodes.NodeLora, Nodes.NodeCkpt, Nodes.Node35>>
    /\ workflow.lora = Some(<<108, 49>>)
    /\ workflow.model = Some(<<109, 50>>)
    /\ workflow.negative_prompt = Some(<<98, 97, 100>>)

\* C7: steps, cfg_scale, sampler and seed (Sampler nodes) and width and
\* height (Latent/Empty nodes) each hold the value of the last node in
\* traversal order that carries the input (an unsigned integer for steps,
\* seed, width and height, a number for cfg, a string for sampler_name):
\* every such node overwrites the field.
C7_LastMatchWins ==
    cpc \in {"nodes", "parsed"} =>
        \A f \in LastWinsFields : workflow[f] = LastSome(SuppliedSoFar(f))

\* C7 witness: two sampler nodes and then two latent nodes were visited; the
\* sampler fields are the second sampler node's, the width is the second
\* latent node's and the height, which only the first carries, is the first's.
C7_Witness ==
    /\ cpc = "parsed"
    /\ Visited = <<Nodes.Node21, Nodes.NodeSampler2, Nodes.NodeLatent>>
    /\ workflow.steps = Some(<<51, 48>>)
    /\ workflow.cfg_scale = Some(<<56>>)
    /\ workflow.seed = Some(<<55>>)

C7_WitnessLatent ==
    /\ cpc = "parsed"
    /\ Visited = <<Nodes.Node21, Nodes.NodeLatent, Nodes.NodeUpscale>>
    /\ workflow.width = Some(<<49, 48, 50, 52>>)
    /\ workflow.height = Some(<<55, 54, 56>>)

\* At most one node of the graph is routed to each row
OneNodePerRow ==
    LET vs == [i \in 1..Len(json_str.tree.kv) |-> json_str.tree.kv[i][2]]
    IN \A row \in {"prompt", "loader", "sampler", "latent"} :
          Cardinality({i \in 1..Len(vs) : RowsOf[vs[i]][row]}) <= 1

\* What the nodes of the graph, taken as a set, supply for field f: the value
\* of the one node that supplies it, None if no node does
SuppliedByGraph(f) ==
    LET vs == {json_str.tree.kv[i][2] : i \in 1..Len(json_str.tree.kv)}
        ss == {v \in vs : IsSome(SuppliesOf[v][f])}
    IN IF ss = {} THEN None ELSE SuppliesOf[CHOOSE v \in ss : TRUE][f]

\* C8: a text that parses is never rejected, and for a graph with at most
\* one node per routing row every field of the result is the corresponding
\* input of that node (read in the type the field takes, as in C7), in
\* whatever order the nodes are visited.
C8_OneNodePerRowAnyOrder ==
    /\ json_str.ok => cpc \notin {"parse_err", "applied_err"}
    /\ (cpc = "parsed" /\ json_str.tree.t = "object" /\ OneNodePerRow) =>
          \A f \in FirstWinsFields \cup LastWinsFields : workflow[f] = SuppliedByGraph(f)

\* The values of the spec's three-node example
ex_prompt ==
    <<98, 101, 97, 117, 116, 105, 102, 117, 108, 32, 108, 97,
      110, 100, 115, 99, 97, 112, 101, 44, 32, 109, 111, 117, 110, 116, 97,
      105, 110, 115, 44, 32, 115, 117, 110, 115, 101, 116, 44, 32, 104, 105,
      103, 104, 108, 121, 32, 100, 101, 116, 97, 105, 108, 101, 100>>
ex_model ==
    <<115, 100, 120, 108, 47, 115, 100, 95, 120, 108, 95, 98, 97,
      115, 101, 95, 49, 46, 48, 46, 115, 97, 102, 101, 116, 101, 110, 115,
      111, 114, 115>>
ex_negative ==
    <<98, 108, 117, 114, 114, 121, 44, 32, 108, 111, 119, 32,
      113, 117, 97, 108, 105, 116, 121>>

\* C8 witness: the three nodes of the spec's example, visited in the order
\* "21", "35", "65", gave the record the spec lists.
C8_Witness ==
    /\ cpc = "parsed"
    /\ Visited = <<Nodes.Node21, Nodes.Node35, Nodes.Node65>>
    /\ workflow.readable_prompt = Some(ex_prompt)
    /\ workflow.model = Some(ex_model)
    /\ workflow.negative_prompt = Some(ex_negative)
    /\ workflow.steps = Some(<<50, 48>>)
    /\ workflow.sampler = Some(<<100, 112, 109, 95, 50>>)
    /\ workflow.seed = Some(<<49, 50, 51, 52, 53>>)
    /\ workflow.cfg_scale = Some(<<55>>)

\* C8 witness of another order of the same nodes, with the same record.
C8_WitnessOtherOrder ==
    /\ cpc = "parsed"
    /\ Visited = <<Nodes.Node65, Nodes.Node35, Nodes.Node21>>
    /\ workflow.readable_prompt = Some(ex_prompt)
    /\ workflow.steps = Some(<<50, 48>>)
    /\ workflow.cfg_scale = Some(<<55>>)

\* C9: when the text is malformed, apply_comfyui_to_metadata returns and the
\* prompt is the first non-empty inputs.populated_text the text holds.
C9_MalformedTextRecoversPrompt ==
    (/\ cpc = "applied_err"
     /\ IsNone(metadata_in.prompt)
     /\ IsSome(find_populated_text_in_json(json_str.tree)))
    => metadata.prompt = find_populated_text_in_json(json_str.tree)

\* What the code does instead: after a parse error the metadata is as it was.
C9_MalformedTextChangesNothing == cpc = "applied_err" => metadata = metadata_in

-----------------------------------------------------------------------------
(* Claims about parse_parameters_string *)

\* The label of each field the final line can write
LabelOf ==
    [steps |-> Labels.steps, sampler |-> Labels.sampler, cfg_scale |-> Labels.cfg_scale,
     seed |-> Labels.seed, size |-> Labels.size, model |-> Labels.model]

\* The segments of the blob's final line, trimmed
FinalLineParts ==
    LET ls == lines(params)
        parts == IF ls = <<>> THEN <<>> ELSE split(ls[Len(ls)], COMMA)
    IN [i \in 1..Len(parts) |-> trim(parts[i])]

\* Of the segments parts, the first n that start with the label of field f
LabelledSoFar(parts, n, f) == {i \in 1..n : starts_with(parts[i], LabelOf[f])}

\* C10: only the final line is consulted for labels. A field whose label
\* starts no segment of that line matched so far is as the caller left it;
\* otherwise it holds the trimmed text after the label of the last such
\* segment, whatever the field held before.
C10_FinalLineLabelsOverwrite ==
    qpc \in {"parts", "returned"} =>
        LET parts == FinalLineParts
        IN \A f \in DOMAIN LabelOf :
            LET hits == LabelledSoFar(parts, part_idx, f)
                last == CHOOSE i \in hits : \A j \in hits : j <= i
            IN pmeta[f] =
                IF hits = {} THEN pmeta_in[f]
                ELSE Some(trim(SubSeq(parts[last], Len(LabelOf[f]) + 1, Len(parts[last]))))

\* C10 witness: the spec's three-line example gave the six values it lists.
C10_Witness ==
    /\ qpc = "returned"
    /\ params = ParamsExample
    /\ pmeta.steps = Some(<<50, 48>>)
    /\ pmeta.sampler = Some(<<69, 117, 108, 101, 114, 32, 97>>)
    /\ pmeta.cfg_scale = Some(<<55>>)
    /\ pmeta.seed = Some(<<49, 50, 51, 52, 53>>)
    /\ pmeta.size = Some(<<53, 49, 50, 120, 53, 49, 50>>)
    /\ pmeta.model = Some(<<115, 116, 97, 98, 108, 101, 45, 100, 105, 102,
        102, 117, 115, 105, 111, 110, 45, 118, 49, 45, 53>>)

\* C10 witness: a field the caller had set was overwritten, by the last of
\* two segments with its label, while labels on an earlier line wrote nothing.
C10_WitnessOverwrite ==
    /\ qpc = "returned"
    /\ pmeta_in.steps = Some(OLD)
    /\ pmeta_in.seed = Some(OLD)
    /\ params = ParamsBlob(<<ParamsLit.line_prompt, ParamsLit.line_labels>>, <<ParamsLit.seg_steps, ParamsLit.seg_steps_again>>, <<>>)
    /\ pmeta.steps = Some(<<51, 48>>)
    /\ pmeta.seed = Some(OLD)

\* C11: the prompt becomes the trimmed first line of the blob only when the
\* caller's metadata has no prompt; a prompt held before the call is held,
\* unchanged, after it (and a blob without lines changes nothing).
C11_PromptOnlyIfUnset ==
    /\ qpc \in {"parts", "returned"} =>
          pmeta.prompt =
              IF IsSome(pmeta_in.prompt) \/ lines(params) = <<>> THEN pmeta_in.prompt
              ELSE Some(trim(lines(params)[1]))
    /\ IsSome(pmeta_in.prompt) => pmeta.prompt = pmeta_in.prompt

\* C11 witness: a call with a prompt already set returned with that prompt,
\* although the blob's first line holds another text.
C11_Witness ==
    /\ qpc = "returned"
    /\ pmeta_in.prompt = Some(OLD)
    /\ lines(params) # <<>>
    /\ lines(params)[1] = ParamsLit.line_prompt_list
    /\ pmeta.prompt = Some(OLD)

\* C11 witness of the other case: no prompt was set and the first line,
\* trimmed, became the prompt.
C11_WitnessUnset ==
    /\ qpc = "returned"
    /\ IsNone(pmeta_in.prompt)
    /\ lines(params) # <<>>
    /\ lines(params)[1] = ParamsLit.line_prompt_list
    /\ pmeta.prompt = Some(<<99, 97, 116, 44, 32, 100, 111, 103>>)

\* The text after the label of line l if l, trimmed, starts with
\* "Negative prompt:", as an option
NegativeTextOf(l) ==
    IF starts_with(trim(l), Labels.negative)
    THEN Some(trim(SubSeq(trim(l), Len(Labels.negative) + 1, Len(trim(l)))))
    ELSE None

\* C12 as stated: every line that starts with the label sets the negative
\* prompt to the text after it, so the last such line decides, whatever its
\* text.
C12_LastNegativeLineWins ==
    qpc \in {"parts", "returned"} =>
        LET ls == lines(params)
            hits == {i \in 1..Len(ls) : IsSome(NegativeTextOf(ls[i]))}
        IN hits # {} =>
            pmeta.negative_prompt =
                NegativeTextOf(ls[CHOOSE i \in hits : \A j \in hits : j <= i])

\* C12, amended: a line that starts with the label sets the negative prompt
\* only if text follows the label; the negative prompt after the call is the
\* text of the last such line, and the caller's value if there is none (a
\* line holding the label alone writes nothing).
C12_LastNonEmptyNegativeLineWins ==
    qpc \in {"parts", "returned"} =>
        LET ls == lines(params)
            hits == {i \in 1..Len(ls) : IsSome(NegativeTextOf(ls[i]))
                                         /\ Unwrap(NegativeTextOf(ls[i])) # <<>>}
        IN pmeta.negative_prompt =
            IF hits = {} THEN pmeta_in.negative_prompt
            ELSE NegativeTextOf(ls[CHOOSE i \in hits : \A j \in hits : j <= i])

\* C12 witness: two lines with the label and a text; the negative prompt the
\* caller had set was replaced by the text of the second.
C12_Witness ==
    /\ qpc = "returned"
    /\ pmeta_in.negative_prompt = Some(OLD)
    /\ Len(lines(params)) >= 2
    /\ lines(params)[1] = ParamsLit.line_negative_other
    /\ lines(params)[2] = ParamsLit.line_negative
    /\ pmeta.negative_prompt =
          Some(<<98, 108, 117, 114, 114, 121, 44, 32, 108, 111, 119, 32, 113, 117, 97,
                 108, 105, 116, 121>>)

\* C12 witness of the label alone: the line wrote nothing.
C12_WitnessLabelAlone ==
    /\ qpc = "returned"
    /\ pmeta_in.negative_prompt = Some(OLD)
    /\ Len(lines(params)) = 2
    /\ lines(params)[2] = ParamsLit.line_negative_empty
    /\ pmeta.negative_prompt = Some(OLD)

-----------------------------------------------------------------------------
(* The tag extractor's results *)

\* The names of the segments of a prompt, as the loops see them
NamesOf(text) ==
    LET segs == extract_segments(text)
    IN {to_lowercase(segs[i]) : i \in 1..Len(segs)}

\* The loop over the positive prompt has ended
PositiveDone ==
    \/ tpc \in {"negative", "returned"}
    \/ tpc = "positive" /\ tag_idx = Len(tag_segments)

\* The first category a name matches, in the order of the blocks
FirstCategory(n) ==
    IF any_match(TagExtractor.style_patterns, n) THEN "style"
    ELSE IF any_match(TagExtractor.quality_patterns, n) THEN "quality"
    ELSE IF any_match(TagExtractor.technique_patterns, n) THEN "technique"
    ELSE IF looks_like_subject(n) THEN "subject"
    ELSE "none"

\* The categories a name matches
CategoriesOf(n) ==
    {c \in {"style", "quality", "technique", "subject"} :
        \/ c = "style" /\ any_match(TagExtractor.style_patterns, n)
        \/ c = "quality" /\ any_match(TagExtractor.quality_patterns, n)
        \/ c = "technique" /\ any_match(TagExtractor.technique_patterns, n)
        \/ c = "subject" /\ looks_like_subject(n)}

ConfidenceOf(type) ==
    CASE type = "style" -> 80
      [] type = "quality" -> 90
      [] type = "technique" -> 85
      [] type = "subject" -> 70
      [] type = "negative" -> 80

TagSet == {tags[i] : i \in 1..Len(tags)}

\* C13: no two tuples of the result share a name; once the positive prompt is
\* done every one of its segment names has exactly one tag when it matches a
\* category, typed by the first category it matches in the order style (0.8),
\* quality (0.9), technique (0.85), subject (0.7), and none otherwise; the
\* prompt of the test yields a style tag "photorealistic", a quality tag "8k"
\* and a subject tag "beautiful landscape"
C13_OneTagPerNameFirstCategory ==
    /\ \A i, j \in 1..Len(tags) : tags[i].name = tags[j].name => i = j
    /\ PositiveDone =>
          LET names == NamesOf(tag_prompt)
              positive == {t \in TagSet : t.type # "negative"}
          IN /\ \A t \in positive : t.name \in names
             /\ \A n \in names :
                   LET first == FirstCategory(n)
                       own == {t \in positive : t.name = n}
                   IN IF first = "none" THEN own = {}
                      ELSE own = {tag(n, first, ConfidenceOf(first))}
    /\ (tpc = "returned" /\ tag_prompt = TagLit.test_prompt) =>
          /\ tag(TagLit.photorealistic, "style", 80) \in TagSet
          /\ tag(TagLit.eight_k, "quality", 90) \in TagSet
          /\ tag(TagLit.beautiful_landscape, "subject", 70) \in TagSet

\* C13 happens: a returned result whose prompt has a segment matching all
\* four categories, tagged once as a style
C13_Witness ==
    /\ tpc = "returned"
    /\ \E n \in NamesOf(tag_prompt) :
          /\ CategoriesOf(n) = {"style", "quality", "technique", "subject"}
          /\ {t \in TagSet : t.name = n} = {tag(n, "style", 80)}

\* C13 happens: a prompt that repeats a segment, and a segment matching
\* quality and subject, each tagged once
C13_WitnessRepeated ==
    /\ tpc = "returned"
    /\ Len(extract_segments(tag_prompt)) = 2
    /\ Cardinality(NamesOf(tag_prompt)) = 1
    /\ \E n \in NamesOf(tag_prompt) :
          /\ CategoriesOf(n) = {"quality", "subject"}
          /\ tags = <<tag(n, "quality", 90)>>

\* C14: with a negative prompt, each of its segment names longer than 2 (in
\* bytes, as str::len counts) that no positive tag carries has exactly one
\* tag, of type "negative" with confidence 0.8; a name of length <= 2 or one a
\* positive tag carries has no negative tag; the negative tags come after all
\* positive tags; without a negative prompt there is no negative tag; the
\* negative prompt of the test yields a negative tag "blurry"
C14_NegativeTagsAfterPositive ==
    /\ \A i, j \in 1..Len(tags) :
          (i < j /\ tags[i].type = "negative") => tags[j].type = "negative"
    /\ tpc \in {"start", "positive"} => \A t \in TagSet : t.type # "negative"
    /\ tpc = "returned" =>
          LET negative == {t \in TagSet : t.type = "negative"}
              positive == {t.name : t \in TagSet \ negative}
              names == IF IsSome(tag_negative) THEN NamesOf(Unwrap(tag_negative)) ELSE {}
          IN /\ \A t \in negative : t.name \in names
             /\ \A n \in names :
                   LET own == {i \in 1..Len(tags) :
                                  tags[i].name = n /\ tags[i].type = "negative"}
                   IN IF str_len(n) > 2 /\ n \notin positive
                      THEN /\ Cardinality(own) = 1
                           /\ \A i \in own : tags[i] = tag(n, "negative", 80)
                      ELSE own = {}
             /\ tag_negative = Some(TagLit.test_negative) =>
                   tag(TagLit.blurry, "negative", 80) \in TagSet

\* C14 happens: a returned result with a negative prompt that repeats a
\* segment, has one a positive tag already carries and one of two bytes, and
\* yields negative tags after positive ones
C14_Witness ==
    /\ tpc = "returned"
    /\ IsSome(tag_negative)
    /\ Len(extract_segments(Unwrap(tag_negative))) >
          Cardinality(NamesOf(Unwrap(tag_negative)))
    /\ \E t \in TagSet : t.type # "negative" /\ t.name \in NamesOf(Unwrap(tag_negative))
    /\ \E t \in TagSet : t.type = "negative"

\* C14 happens: segments of two bytes or fewer and a segment of two
\* characters in more than two bytes, the latter tagged alone
C14_WitnessShort ==
    /\ tpc = "returned"
    /\ IsSome(tag_negative)
    /\ \E n \in NamesOf(Unwrap(tag_negative)) : str_len(n) <= 2 /\ Len(n) = 2
    /\ \E n \in NamesOf(Unwrap(tag_negative)) :
          Len(n) = 2 /\ str_len(n) > 2 /\ tag(n, "negative", 80) \in TagSet

-----------------------------------------------------------------------------
(* The extractor's results *)

\* The format hint is none of png, jpg, jpeg, webp in any letter case
UnknownFormat ==
    \/ IsNone(path_extension)
    \/ to_lowercase(Unwrap(path_extension)) \notin
          {ExtractLit.png, ExtractLit.jpg, ExtractLit.jpeg, ExtractLit.webp}

\* C15: with a format hint other than png, jpg, jpeg or webp (compared without
\* regard to letter case) extract never fails and returns the empty record,
\* whether or not the file can be read
C15_UnknownFormatYieldsEmpty ==
    UnknownFormat =>
        /\ outcome # "Err"
        /\ xpc = "returned" => (outcome = "Ok" /\ extracted = EmptyMetadata)

\* C15 happens: an unknown extension on a file that cannot be read
C15_Witness ==
    /\ xpc = "returned"
    /\ path_extension = Some(ExtractLit.gif)
    /\ ~file_readable
    /\ outcome = "Ok"

\* C15 happens: a path without extension
C15_WitnessNoExtension ==
    /\ xpc = "returned"
    /\ IsNone(path_extension)
    /\ outcome = "Ok"

\* The field a dedicated keyword chunk is mapped to (png.rs lines 51-71)
KeywordField(key) ==
    CASE key = ExtractLit.negative_prompt -> "negative_prompt"
      [] key = ExtractLit.model -> "model"
      [] key = ExtractLit.seed -> "seed"
      [] key = ExtractLit.steps -> "steps"
      [] key \in {ExtractLit.cfg_scale, ExtractLit.CFG_scale} -> "cfg_scale"
      [] key = ExtractLit.sampler -> "sampler"
      [] key = ExtractLit.size -> "size"
      [] OTHER -> "none"

\* C16: in a PNG extraction a dedicated keyword chunk does not replace the
\* value its field already holds
C16_KeywordChunkNeverReplaces ==
    [][(xpc = "png_chunks" /\ chunk_idx < Len(text_chunks)) =>
          LET f == KeywordField(text_chunks[chunk_idx + 1][1])
          IN (f # "none" /\ IsSome(extracted[f])) => extracted'[f] = extracted[f]]_vars

\* What the code does: a dedicated keyword chunk always writes its field
C16_KeywordChunkAlwaysWrites ==
    [][(xpc = "png_chunks" /\ chunk_idx < Len(text_chunks)) =>
          LET f == KeywordField(text_chunks[chunk_idx + 1][1])
          IN f # "none" => extracted'[f] = Some(text_chunks[chunk_idx + 1][2].s)]_vars

\* C17: every record extract returns has prompt and negative_prompt in
\* normalized form (normalize leaves each unchanged); the normalization is the
\* step before the return, applied to what the mapping left, and nothing
\* writes the record after it
C17_NormalizationLast ==
    /\ [](xpc = "returned" /\ outcome = "Ok" =>
            \A f \in {"prompt", "negative_prompt"} :
                IsSome(extracted[f]) => normalize(Unwrap(extracted[f])) = Unwrap(extracted[f]))
    /\ [][/\ xpc = "normalize" =>
              /\ xpc' = "returned"
              /\ \A f \in {"prompt", "negative_prompt"} :
                    extracted'[f] = IF IsSome(extracted[f])
                                    THEN Some(normalize(Unwrap(extracted[f])))
                                    ELSE None
          /\ xpc = "returned" => extracted' = extracted
          /\ xpc' = "normalize" => xpc # "normalize"]_vars

\* C17 happens: a PNG whose "negative_prompt" chunk and prompt were stored
\* untidy by the mapping and are returned normalized
C17_Witness ==
    /\ xpc = "returned"
    /\ outcome = "Ok"
    /\ ext = ExtractLit.png
    /\ normalize(ExtractLit.untidy) # ExtractLit.untidy
    /\ text_chunks = << <<PngLit.prompt, [s |-> ExtractLit.untidy,
                                          js |-> [ok |-> FALSE, tree |-> JNull]]>>,
                        <<ExtractLit.negative_prompt,
                          [s |-> ExtractLit.untidy, js |-> [ok |-> FALSE, tree |-> JNull]]>> >>
    /\ extracted.prompt = Some(normalize(ExtractLit.untidy))
    /\ extracted.negative_prompt = Some(normalize(ExtractLit.untidy))

\* C17 happens: a record from a workflow and a record of a JPEG, normalized
C17_WitnessWorkflow ==
    /\ xpc = "returned"
    /\ outcome = "Ok"
    /\ has_comfyui_workflow
    /\ IsSome(extracted.prompt)
    /\ IsSome(extracted.negative_prompt)

-----------------------------------------------------------------------------
(* Determinism of the workflow parser *)

\* The entries of the top-level object from the last to the first
Backwards(kv) == [i \in 1..Len(kv) |-> kv[Len(kv) + 1 - i]]

-----------------------------------------------------------------------------
(* Line ends and commas in the normalizer *)

\* C19: every "\r\n" and every lone "\r" of the input becomes one "\n": the
\* result is that of the same text with its line ends written as "\n"
C19_CarriageReturnBecomesNewline ==
    npc = "normalized" =>
        normalized = normalize(replace(replace(prompt, <<CR, LF>>, <<LF>>), <<CR>>, <<LF>>))

\* What the code does: a carriage return is dropped with the control
\* characters, so "\r\n" leaves its "\n" and a lone "\r" leaves nothing
C19_CarriageReturnDropped ==
    npc = "normalized" => normalized = normalize(SelectSeq(prompt, LAMBDA c : c # CR))

\* Two commas of s with nothing but whitespace between them
CommasApart(s) ==
    \E i, j \in 1..Len(s) :
        /\ i < j
        /\ s[i] = COMMA
        /\ s[j] = COMMA
        /\ \A k \in (i + 1)..(j - 1) : is_whitespace(s[k])

\* C20: the output of clean has no two commas separated only by whitespace
\* and does not end with a comma
C20_CleanLeavesSingleCommas ==
    npc = "cleaned" =>
        /\ ~CommasApart(cleaned)
        /\ cleaned # <<>> => cleaned[Len(cleaned)] # COMMA

\* What the code does: commas at the end are dropped before the final trim
\* only, and the result has no whitespace at either end
C20_CleanIsTrimmed ==
    npc = "cleaned" => (cleaned = trim(cleaned) /\ Len(cleaned) <= Len(normalize(prompt)))


-----------------------------------------------------------------------------
(* C21: the description pairs of one XMP chunk *)

\* The number of ("description", text) pairs among the pairs cs
DescriptionPairs(cs) ==
    Cardinality({i \in 1..Len(cs) : cs[i][1] = WebpLit.key_description})

\* C21 as stated, refuted: one chunk adds at most one ("description", text)
\* pair to the pairs read so far.
C21_AtMostOneDescription ==
    [][DescriptionPairs(wchunks') <= DescriptionPairs(wchunks) + 1]_vars

\* What the code does: an "XMP " chunk whose text holds a non-empty
\* <dc:description> element and a non-empty dc:description attribute adds the
\* element's pair, then the attribute's pair, then ("XMP", text).
C21_BothDescriptionsEmitted ==
    [][(/\ wpc = "loop"
        /\ woffset + 8 <= Len(wdata)
        /\ woffset + 8 + webp_length <= Len(wdata)
        /\ webp_chunk_type = WebpLit.XMP_
        /\ Slice(wdata, woffset + 8, woffset + 8 + webp_length) = WebpLit.xmp_both)
       => wchunks' = wchunks \o
              << <<WebpLit.key_description, <<104, 105>> >>,
                 <<WebpLit.key_description, <<121, 111>> >>,
                 <<WebpLit.key_XMP, WebpLit.xmp_both>> >>]_vars

-----------------------------------------------------------------------------
(* C25: the walker skips the padding byte of an odd payload *)

\* The pairs chunk c of the file gives when it is read whole at its own start:
\* an "EXIF" or "XMP " chunk with UTF-8 payload is interpreted, every other
\* chunk gives nothing
PairsOfChunk(c) ==
    LET text == from_utf8(c.payload)
    IN IF c.fourcc = WebpLit.EXIF /\ IsSome(text)
       THEN << <<WebpLit.key_EXIF, Unwrap(text)>> >>
       ELSE IF c.fourcc = WebpLit.XMP_ /\ IsSome(text)
       THEN parse_xmp_for_prompts(Unwrap(text), <<>>) \o
            << <<WebpLit.key_XMP, Unwrap(text)>> >>
       ELSE <<>>

RECURSIVE PairsOfChunks(_)
PairsOfChunks(cs) ==
    IF cs = <<>> THEN <<>> ELSE PairsOfChunk(Head(cs)) \o PairsOfChunks(Tail(cs))

\* C25: whenever the loop of parse_webp_chunks is at its head, the offset is
\* the start of a chunk of the file (8 header bytes, the declared length and
\* the padding byte of an odd length after the start of the chunk before), and
\* the pairs read so far are those of the "EXIF" and "XMP " chunks before that
\* offset, in file order: a chunk after an odd-length chunk is read where it
\* starts, and a chunk of another FourCC adds no pair.
C25_PaddedAdvance ==
    wpc = "loop" =>
        \E k \in 1..(Len(webp_file.chunks) + 1) :
            /\ woffset = WebpChunkStart(webp_file, k)
            /\ wchunks = PairsOfChunks(SubSeq(webp_file.chunks, 1, k - 1))

\* An EXIF chunk has just been read right after a chunk of odd length.
C25_Witness ==
    /\ wpc = "loop"
    /\ Len(webp_file.chunks) >= 2
    /\ woffset = WebpChunkStart(webp_file, 3)
    /\ webp_file.chunks[1].length % 2 = 1
    /\ webp_file.chunks[1].fourcc = WebpLit.VP8_
    /\ webp_file.chunks[2] = WebpChunkOf(WebpLit.EXIF, <<101, 120>>)
    /\ wchunks = << <<WebpLit.key_EXIF, <<101, 120>> >> >>

\* An XMP chunk has just been read after an odd-length XMP chunk.
C25_WitnessXmp ==
    /\ wpc = "loop"
    /\ Len(webp_file.chunks) >= 2
    /\ woffset = WebpChunkStart(webp_file, 3)
    /\ webp_file.chunks[1] = WebpChunkOf(WebpLit.XMP_, WebpLit.xmp_element)
    /\ webp_file.chunks[2] = WebpChunkOf(WebpLit.XMP_, WebpLit.xmp_attribute)
    /\ Len(wchunks) = 4
    /\ wchunks[3] = <<WebpLit.key_description, <<121, 111>> >>

-----------------------------------------------------------------------------
(* C27: both chunk walkers terminate inside the buffer *)

\* One run of one of the two walkers on one buffer
SpecWalkers == (InitPng \/ InitWebp) /\ [][NextPng \/ NextWebp]_vars

\* The walker has returned (every exit of both functions is Ok(chunks))
WalkerReturned ==
    \/ ppc \in {"end_of_data", "short_header", "iend", "overrun"}
    \/ wpc \in {"too_short", "not_riff", "not_webp", "end_of_data", "short_header",
                "overrun"}

\* C27: on every buffer both walkers stay inside the buffer and come to an
\* end.  The offset of the PNG walker never passes the end of the buffer once
\* it has moved, that of the WebP walker passes it by at most the padding byte
\* of a last odd chunk, and then the loop condition stops the walk; a payload
\* is sliced only when it lies within the buffer; an iteration that does not
\* leave the loop strictly increases the offset, so the loop runs at most
\* Len(buffer) times; and the walker is only ever in its loop or returned.
C27_WalkersStayInBuffer ==
    /\ [](ppc # "idle" => 8 <= offset /\ (offset = 8 \/ offset <= Len(data)))
    /\ [](wpc # "idle" => 0 <= woffset /\ woffset <= Len(wdata) + 1)
    /\ [](ppc = "idle" \/ wpc = "idle")
    /\ [](ppc \in {"idle", "loop"} \/ wpc \in {"idle", "start", "loop"} \/ WalkerReturned)
    /\ [][ppc = "loop" /\ ppc' = "loop" => offset < offset']_vars
    /\ [][wpc = "loop" /\ wpc' = "loop" => woffset < woffset']_vars
    /\ [][chunks' # chunks => offset + 8 + png_length <= Len(data)]_vars
    /\ [][wchunks' # wchunks => woffset + 8 + webp_length <= Len(wdata)]_vars

\* The WebP walker has returned with pairs after stepping over the missing
\* padding byte of the last chunk, one byte past the end of the buffer.
C27_Witness ==
    /\ wpc = "end_of_data"
    /\ woffset = Len(wdata) + 1
    /\ wchunks # <<>>

\* The PNG walker has returned on a buffer shorter than the signature.
C27_WitnessShortPng == ppc = "end_of_data" /\ Len(data) < 8

\* The PNG walker has returned at a chunk whose declared length is 2^24 - 1.
C27_WitnessOverrun ==
    /\ ppc = "overrun"
    /\ from_be_bytes(Slice(data, offset - 8, offset - 4)) = 16777215

-----------------------------------------------------------------------------
(* C24: the numbers of a sampler or latent node *)

\* The decimal string of a JSON number, whatever its kind: 20, -1, 2.5, 7
CanonicalDecimal(n) ==
    IF n.repr = "PosInt" THEN u64_to_string(n.v)
    ELSE IF n.repr = "NegInt" THEN <<45>> \o u64_to_string(n.v)
    ELSE f64_to_string([neg |-> n.neg, int |-> n.int, frac |-> n.frac])

\* The decimal string of the number a routed node gives under key, if any
NumberGiven(routed, v, key) ==
    IF routed /\ IsSome(node_input(v, key)) /\ Unwrap(node_input(v, key)).t = "number"
    THEN Some(CanonicalDecimal(Unwrap(node_input(v, key))))
    ELSE None

\* The numbers each entry of the graphs gives, tabulated once
NumbersOf ==
    [v \in GraphEntries |->
        [steps |-> NumberGiven(InSamplerRow(v), v, "steps"),
         cfg_scale |-> NumberGiven(InSamplerRow(v), v, "cfg"),
         seed |-> NumberGiven(InSamplerRow(v), v, "seed"),
         width |-> NumberGiven(InLatentRow(v), v, "width"),
         height |-> NumberGiven(InLatentRow(v), v, "height")]]

NumericFields == {"steps", "cfg_scale", "seed", "width", "height"}

\* C24 as stated, refuted: right after a node is visited, every number it
\* gives for steps, cfg, seed, width or height is in the workflow record
\* as its decimal string.
C24_EveryNumberStored ==
    (cpc = "nodes" /\ node_idx >= 1) =>
        \A f \in NumericFields :
            IsSome(NumbersOf[Visited[node_idx]][f]) =>
                workflow[f] = NumbersOf[Visited[node_idx]][f]

\* What the code does: cfg is stored for every number; steps, seed, width and
\* height are stored when the number is an unsigned integer, and a negative
\* or fractional number is skipped (the field keeps what it held).
C24_UnsignedIntegersStored ==
    (cpc = "nodes" /\ node_idx >= 1) =>
        LET v == Visited[node_idx]
        IN /\ \A f \in NumericFields :
                IsSome(SuppliesOf[v][f]) => workflow[f] = SuppliesOf[v][f]
           /\ SuppliesOf[v].cfg_scale = NumbersOf[v].cfg_scale
           /\ \A f \in NumericFields \ {"cfg_scale"} :
                SuppliesOf[v][f] \in {None, NumbersOf[v][f]}

-----------------------------------------------------------------------------
(* C26: what apply_comfyui_to_metadata may change in the caller's record *)

SetOnceFields == {"negative_prompt", "model", "seed", "steps", "cfg_scale", "sampler"}

\* C26: when apply_comfyui_to_metadata returns, every field but the prompt
\* that the caller had set is as the caller left it; a field the caller had
\* not set holds what the workflow record gives for it (size is
\* "<width>x<height>" when both were extracted, unset otherwise; nothing when
\* the text did not parse); parameters is as the caller left it; and other is
\* the caller's list, followed by a ("lora", name) pair when a lora was found.
C26_OnlyPromptOverwritten ==
    cpc \in {"applied", "applied_err"} =>
        LET parsed == cpc = "applied"
        IN /\ \A f \in SetOnceFields :
                metadata[f] = IF IsSome(metadata_in[f]) THEN metadata_in[f]
                              ELSE IF parsed THEN workflow[f] ELSE None
           /\ metadata.size =
                IF IsSome(metadata_in.size) THEN metadata_in.size
                ELSE IF parsed /\ IsSome(workflow.width) /\ IsSome(workflow.height)
                THEN Some(Unwrap(workflow.width) \o <<LETTER_X>> \o Unwrap(workflow.height))
                ELSE None
           /\ metadata.parameters = metadata_in.parameters
           /\ metadata.other =
                IF parsed /\ IsSome(workflow.lora)
                THEN metadata_in.other \o << <<ComfyLit.lora, Unwrap(workflow.lora)>> >>
                ELSE metadata_in.other

\* A workflow with a prompt, a model and a lora was applied to a record whose
\* fields were all set: the prompt was replaced, the model kept, the lora
\* appended.
C26_Witness ==
    /\ cpc = "applied"
    /\ IsSome(metadata_in.model)
    /\ IsSome(workflow.model)
    /\ workflow.model # metadata_in.model
    /\ metadata.model = metadata_in.model
    /\ IsSome(workflow.readable_prompt)
    /\ metadata.prompt # metadata_in.prompt
    /\ IsSome(workflow.lora)
    /\ Len(metadata.other) = 2

\* A workflow with a width and a height was applied to an empty record.
C26_WitnessSize ==
    /\ cpc = "applied"
    /\ metadata_in = EmptyMetadata
    /\ IsSome(metadata.size)
    /\ IsSome(metadata.steps)

-----------------------------------------------------------------------------
(* C28: what extract_webp_metadata makes of the pairs of parse_webp_chunks *)

\* The record the loop of webp.rs lines 15-50 builds from the pairs cs
RECURSIVE WebpMapped(_, _)
WebpMapped(md, cs) ==
    IF cs = <<>> THEN md
    ELSE WebpMapped(webp_map(md, Head(cs)[1], [s |-> Head(cs)[2]]), Tail(cs))

NamedFields ==
    {"prompt", "negative_prompt", "parameters", "model", "seed", "steps", "cfg_scale",
     "sampler", "size"}

\* C28: the pairs parse_webp_chunks returns have no key but "EXIF", "XMP" and
\* "description", and the record extract_webp_metadata builds from them has
\* every named field unset and the pairs themselves, in order, as other.
C28_WebpFillsOnlyOther ==
    (wpc \in {"too_short", "not_riff", "not_webp", "end_of_data", "short_header",
              "overrun"}) =>
        /\ \A i \in 1..Len(wchunks) :
              wchunks[i][1] \in {WebpLit.key_EXIF, WebpLit.key_XMP, WebpLit.key_description}
        /\ \A f \in NamedFields : WebpMapped(EmptyMetadata, wchunks)[f] = None
        /\ WebpMapped(EmptyMetadata, wchunks).other = wchunks

\* The reader has returned an EXIF pair, a description pair and an XMP pair.
C28_Witness ==
    /\ wpc = "end_of_data"
    /\ {wchunks[i][1] : i \in 1..Len(wchunks)} =
          {WebpLit.key_EXIF, WebpLit.key_XMP, WebpLit.key_description}

-----------------------------------------------------------------------------
(* C29, C30: workflow JSON in the tEXt chunks of a PNG file *)

\* The chunks whose text is taken for a workflow: key "prompt" or
\* "parameters" and a text that begins, after blanks, with '{'
WorkflowChunks ==
    {i \in 1..Len(text_chunks) :
        /\ text_chunks[i][1] \in {PngLit.prompt, PngLit.parameters}
        /\ starts_with(trim_start(text_chunks[i][2].s), ExtractLit.brace)}

\* C29: during and after the field mapping of a PNG file the prompt is never
\* the text of a "prompt" or "parameters" chunk that begins with '{'.
C29_WorkflowTextNeverPrompt ==
    (ext = ExtractLit.png /\ xpc \in {"png_chunks", "normalize", "returned"}
        /\ outcome # "Err") =>
        \A i \in WorkflowChunks : extracted.prompt # Some(text_chunks[i][2].s)

\* A "prompt" chunk holding a workflow was mapped and the prompt is the
\* readable text of its node ("dog").
C29_Witness ==
    /\ ext = ExtractLit.png
    /\ xpc = "normalize"
    /\ Len(text_chunks) >= 1
    /\ text_chunks[1][1] = PngLit.prompt
    /\ 1 \in WorkflowChunks
    /\ extracted.prompt = Some(<<100, 111, 103>>)

\* A malformed workflow in "parameters" and a workflow without readable text
\* in "prompt" were mapped, and the prompt is unset.
C29_WitnessUnset ==
    /\ ext = ExtractLit.png
    /\ xpc = "normalize"
    /\ WorkflowChunks = {1, 2}
    /\ text_chunks[1][1] = PngLit.parameters
    /\ text_chunks[2][1] = PngLit.prompt
    /\ extracted.prompt = None
    /\ IsSome(extracted.steps)

\* The "parameters" chunks whose text begins with '{'
WorkflowParameters == {i \in WorkflowChunks : text_chunks[i][1] = PngLit.parameters}

\* C30: when a PNG file has a "parameters" chunk whose text begins with '{',
\* then from the start of the chunk loop on the parameters field holds the
\* text of the first such chunk (no other "parameters" chunk is stored or
\* parsed), and when that workflow yields a readable prompt the prompt is that
\* text, wherever the chunk stands in the file, and every field for which no
\* keyword chunk has been mapped is as the workflow left it.
C30_WorkflowParametersFirst ==
    (ext = ExtractLit.png /\ xpc \in {"png_chunks", "normalize"}
        /\ WorkflowParameters # {}) =>
        LET first ==
                text_chunks[CHOOSE i \in WorkflowParameters :
                                \A j \in WorkflowParameters : i <= j][2]
            applied ==
                apply_comfyui_to_metadata(
                    first.js, [EmptyMetadata EXCEPT !.parameters = Some(first.s)])
            mapped == {KeywordField(text_chunks[i][1]) : i \in 1..chunk_idx}
        IN /\ has_comfyui_workflow
           /\ extracted.parameters = Some(first.s)
           /\ IsSome(applied.prompt) =>
                /\ extracted.prompt = applied.prompt
                /\ \A f \in (SetOnceFields \cup {"size"}) \ mapped :
                      extracted[f] = applied[f]

\* A plain "prompt" chunk stands before the workflow "parameters" chunk, and
\* the prompt is the workflow's readable text.
C30_Witness ==
    /\ ext = ExtractLit.png
    /\ xpc = "normalize"
    /\ Len(text_chunks) = 2
    /\ text_chunks[1] = <<PngLit.prompt, [s |-> ExtractLit.untidy,
                                          js |-> [ok |-> FALSE, tree |-> JNull]]>>
    /\ WorkflowParameters = {2}
    /\ IsSome(extracted.prompt)
    /\ extracted.prompt # Some(ExtractLit.untidy)

\* A parameter string stands before the workflow "parameters" chunk and has
\* not been stored or parsed.
C30_WitnessParameterString ==
    /\ ext = ExtractLit.png
    /\ xpc = "normalize"
    /\ Len(text_chunks) = 2
    /\ text_chunks[1][1] = PngLit.parameters
    /\ text_chunks[1][2].s = ParamsExample
    /\ WorkflowParameters = {2}
    /\ extracted.parameters = Some(ExtractLit.brace)
    /\ extracted.negative_prompt # None

-----------------------------------------------------------------------------
(* C22, C23: the prompt of a JPEG file *)

\* The EXIF field the loop is about to handle is a UserComment
AtUserComment ==
    /\ jpc = "fields"
    /\ field_idx < Len(exif_fields)
    /\ exif_fields[field_idx + 1][1] = JpegLit.UserComment

\* C22 as stated, refuted: a prompt that is set is not replaced when a
\* UserComment field is handled.
C22_UserCommentKeepsPrompt ==
    [][(AtUserComment /\ IsSome(jmeta.prompt)) => jmeta'.prompt = jmeta.prompt]_vars

\* What the code does: a UserComment with one of the labels "Steps:",
\* "CFG scale:", "Seed:" keeps a prompt that is set; one without them but
\* with "Negative prompt:" replaces the prompt by its first line, trimmed;
\* any other changes nothing.
C22_UserCommentWithoutLabelsOverwrites ==
    [][AtUserComment =>
        LET text == exif_fields[field_idx + 1][2]
            labelled == \/ contains(text, JpegLit.steps)
                        \/ contains(text, JpegLit.cfg_scale)
                        \/ contains(text, JpegLit.seed)
        IN jmeta'.prompt =
              IF labelled
              THEN IF IsSome(jmeta.prompt) THEN jmeta.prompt ELSE Some(trim(lines(text)[1]))
              ELSE IF contains(text, JpegLit.negative) THEN Some(trim(lines(text)[1]))
              ELSE jmeta.prompt]_vars

\* The XMP step is taken on bytes whose XML carries the attribute
\* dc:description="yo" on an rdf:Description element and no element form
AtAttributeXmp ==
    /\ jpc = "fields"
    /\ field_idx = Len(exif_fields)
    /\ buf = <<255, 216>> \o JpegLit.xmp_header \o JpegLit.xml_attribute

\* C23 as stated, refuted: when the prompt is unset the XMP step sets it to
\* the value of the attribute, and a prompt that is set stays.
C23_AttributeBecomesPrompt ==
    [][AtAttributeXmp =>
        jmeta'.prompt = IF IsNone(jmeta.prompt) THEN Some(JpegLit.yo) ELSE jmeta.prompt]_vars

\* What the code does: the attribute is never taken (the prompt is as it was
\* before the XMP step, set or unset); only the two element forms set an
\* unset prompt.
C23_AttributeNeverRead ==
    /\ [][AtAttributeXmp => jmeta'.prompt = jmeta.prompt]_vars
    /\ [][(jpc = "fields" /\ field_idx = Len(exif_fields)) =>
            jmeta'.prompt \in {jmeta.prompt, Some(JpegLit.hi), Some(JpegLit.xd)}]_vars
    /\ [][(jpc = "fields" /\ field_idx = Len(exif_fields) /\ IsSome(jmeta.prompt)) =>
            jmeta'.prompt = jmeta.prompt]_vars

=============================================================================
